---- MODULE Spec2Model ----
(***************************************************************************)
(* Model of the estate-sale analysis pipeline: the similarity scorer, the  *)
(* item deduplicator, the batch price enricher and the POST handler of     *)
(* app/api/analyze/route.js; of the analysis panel of app/SalesClient.js;  *)
(* and of the password gate (middleware.js and the route of /api/auth).    *)
(*                                                                         *)
(* JavaScript strings are sequences of one-character strings, objects are  *)
(* records whose DOMAIN holds exactly the properties the object has (a     *)
(* missing property reads as undefined), arrays are sequences.             *)
(***************************************************************************)
EXTENDS Integers, Sequences, FiniteSets, TLC

VARIABLES
    \* ---- deduplicateItems applied to a list, then to its own output
    dedupInput,     \* items: the list L handed to deduplicateItems
    dedupPc,        \* "start", "loop" (walking sorted), "returned", "rerun"
    dedupSorted,    \* sorted: the copy of L ordered by confidence
    dedupIdx,       \* position in sorted of the next item of the outer loop
    dedupKept,      \* kept; the returned list once dedupPc = "returned"
    dedupMerge,     \* the last iteration's merge: <<[item, index, existing]>>, or <<>>
    dedupAgain,     \* deduplicateItems(deduplicateItems(L)) once dedupPc = "rerun"
    \* ---- one invocation of POST /api/analyze
    request,        \* the parsed request body: saleId and maxPhotos when supplied
    env,            \* process.env: which credentials are configured
    pc,             \* position of the handler, see the actions below
    saleOutcome,    \* how the listing fetch settled, <<>> before
    pictures,       \* saleData.pictures || []
    photosToAnalyze,
    photoTasks,     \* one record per photo of photosToAnalyze: its async task
    photoLoop,      \* i of the photo loop (0-based start of the current batch)
    allItems,
    deduplicated,
    lookupTasks,    \* one record per item of deduplicated: its lookup task
    lookupLimit,    \* the concurrency argument of batchPriceLookup, 0 before the call
    lookupLoop,     \* i of batchPriceLookup
    priceLookups,   \* results of batchPriceLookup
    ebayAvailable,
    response,       \* <<>> until the handler returns, then <<[status, body]>>
    outbound,       \* the outbound calls made so far, by kind
    \* ---- one call of similarity
    simA,           \* a
    simB,           \* b
    simScore,       \* <<>> until similarity returns, then <<score>>
    \* ---- the analysis state of SalesClient; null is <<>>, a value x is <<x>>
    analyzingSaleId,
    analysisSale,   \* the sale of the analysis panel (its id), <<>> when closed
    analysisData,
    analysisLoading,
    analysisError,
    analysisCache,  \* per listing id: <<>> or <<report>>
    analyzeCalls,   \* per listing id: requests to /api/analyze in flight
    analyzeLog,     \* the requests that have settled, in order: [sale, ok, data]
    \* ---- the site's password gate
    sitePassword,   \* process.env.SITE_PASSWORD: <<>> unset, else <<string>>
    cookieJar,      \* the browser's estate-auth cookie: <<>> or <<value>>
    httpRequest,    \* <<>> or <<[path, method, cookie, password]>>
    httpStage,      \* "idle", "middleware", "next", "bypass", "done"
    httpResponse    \* <<>> or <<[kind, ...]>>

dedupVars ==
    <<dedupInput, dedupPc, dedupSorted, dedupIdx, dedupKept, dedupMerge, dedupAgain>>

postVars ==
    <<request, env, pc, saleOutcome, pictures, photosToAnalyze, photoTasks, photoLoop,
      allItems, deduplicated, lookupTasks, lookupLimit, lookupLoop, priceLookups,
      ebayAvailable, response, outbound>>

simVars == <<simA, simB, simScore>>

clientVars ==
    <<analyzingSaleId, analysisSale, analysisData, analysisLoading, analysisError,
      analysisCache, analyzeCalls, analyzeLog>>

authVars == <<sitePassword, cookieJar, httpRequest, httpStage, httpResponse>>

vars == <<dedupVars, postVars, simVars, clientVars, authVars>>

-----------------------------------------------------------------------------
(* Generic helpers *)

Range(s) == { s[i] : i \in DOMAIN s }

Has(obj, f) == f \in DOMAIN obj

\* obj with property f set to v (added when missing): obj.f = v, {...obj, f: v}
SetField(obj, f, v) ==
    [g \in DOMAIN obj \cup {f} |-> IF g = f THEN v ELSE obj[g]]

\* new Set(s) spread back into an array: first occurrences, in insertion order
Uniq(s) ==
    LET first == { i \in DOMAIN s : \A j \in 1..(i - 1) : s[j] # s[i] }
        pos(i) == Cardinality({ j \in first : j < i }) + 1
    IN  [p \in 1..Cardinality(first) |-> s[CHOOSE i \in first : pos(i) = p]]

\* Array.prototype.sort (stable) with comparator (a, b) => key(b) - key(a):
\* keys[i] is the key of s[i]; larger keys first, ties in original order
SortDesc(s, keys) ==
    LET before(j, i) == keys[j] > keys[i] \/ (keys[j] = keys[i] /\ j < i)
        pos(i) == Cardinality({ j \in DOMAIN s : before(j, i) }) + 1
    IN  [p \in DOMAIN s |-> s[CHOOSE i \in DOMAIN s : pos(i) = p]]

-----------------------------------------------------------------------------
(* String.prototype.toLowerCase over the characters the model uses *)

toLowerChar(c) ==
    CASE c = "A" -> "a"
      [] c = "B" -> "b"
      [] OTHER   -> c

toLowerCase(s) == [i \in DOMAIN s |-> toLowerChar(s[i])]

-----------------------------------------------------------------------------
(* similarity(a, b): Dice coefficient over bigrams.  The result is the     *)
(* exact fraction num/den; the quotient the code computes in double        *)
(* precision compares with 0.75 and 0.70 as the fraction does, because the *)
(* division is correctly rounded and the operands are small integers.      *)

Fraction(n, d) == [num |-> n, den |-> d]

\* x >= y for fractions with positive denominators
FracGe(x, y) == x.num * y.den >= y.num * x.den

substring2(s, i) == <<s[i], s[i + 1]>>

\* the Map built by the first loop: bigram -> number of occurrences in aLower
BigramCounts(aLower) ==
    LET grams == { substring2(aLower, i) : i \in 1..(Len(aLower) - 1) }
    IN  [g \in grams |->
            Cardinality({ i \in 1..(Len(aLower) - 1) : substring2(aLower, i) = g })]

\* bug variant: a matched bigram is not taken out of the Map
RECURSIVE CountIntersectionsNoConsume(_, _, _, _)
CountIntersectionsNoConsume(bLower, i, bigrams, intersections) ==
    IF i > Len(bLower) - 1 THEN intersections
    ELSE LET bigram == substring2(bLower, i)
             count  == IF bigram \in DOMAIN bigrams THEN bigrams[bigram] ELSE 0
         IN  CountIntersectionsNoConsume(bLower, i + 1, bigrams,
                 IF count > 0 THEN intersections + 1 ELSE intersections)

\* the second loop from position i on: consume matching bigrams of bLower
RECURSIVE CountIntersections(_, _, _, _)
CountIntersections(bLower, i, bigrams, intersections) ==
    IF i > Len(bLower) - 1 THEN intersections
    ELSE LET bigram == substring2(bLower, i)
             count  == IF bigram \in DOMAIN bigrams THEN bigrams[bigram] ELSE 0
         IN  IF count > 0
             THEN CountIntersections(bLower, i + 1,
                      [bigrams EXCEPT ![bigram] = count - 1], intersections + 1)
             ELSE CountIntersections(bLower, i + 1, bigrams, intersections)

\* bug variant: no early return for strings shorter than 2 characters
similarityNoLengthTest(a, b) ==
    LET aLower == toLowerCase(a)
        bLower == toLowerCase(b)
    IN  IF aLower = bLower THEN Fraction(1, 1)
        ELSE Fraction(2 * CountIntersections(bLower, 1, BigramCounts(aLower), 0),
                      Len(aLower) + Len(bLower) - 2)

similarity(a, b) ==
    LET aLower == toLowerCase(a)
        bLower == toLowerCase(b)
    IN  IF aLower = bLower THEN Fraction(1, 1)
        ELSE IF Len(aLower) < 2 \/ Len(bLower) < 2 THEN Fraction(0, 1)
        ELSE Fraction(2 * CountIntersections(bLower, 1, BigramCounts(aLower), 0),
                      Len(aLower) + Len(bLower) - 2)

-----------------------------------------------------------------------------
(* deduplicateItems(items, nameThreshold = 0.75, queryThreshold = 0.70) *)

nameThreshold == Fraction(3, 4)
queryThreshold == Fraction(7, 10)

\* confidenceRank[item.confidence] || 0
confidenceRank(item) ==
    IF ~Has(item, "confidence") THEN 0
    ELSE CASE item.confidence = "high"   -> 3
           [] item.confidence = "medium" -> 2
           [] item.confidence = "low"    -> 1
           [] OTHER                      -> 0

\* bug variant: the category test dropped from the inner loop
CategoryIgnored(item, existing) == FALSE

\* item.category !== existing.category (a missing category is undefined)
CategoryDiffers(item, existing) ==
    IF Has(item, "category") /\ Has(existing, "category")
    THEN item.category # existing.category
    ELSE Has(item, "category") # Has(existing, "category")

\* similarity(x, y) throws a TypeError when x or y is undefined
SimilarityThrows(item, existing) ==
    \/ ~Has(item, "name") \/ ~Has(existing, "name")
    \/ ~Has(item, "search_query") \/ ~Has(existing, "search_query")

\* bug variant: only the names are compared
IsDuplicateByNameOnly(item, existing) ==
    FracGe(similarity(item.name, existing.name), nameThreshold)

IsDuplicateOf(item, existing) ==
    \/ FracGe(similarity(item.name, existing.name), nameThreshold)
    \/ FracGe(similarity(item.search_query, existing.search_query), queryThreshold)

\* item.notable_features || []
FeaturesOf(item) == IF Has(item, "notable_features") THEN item.notable_features ELSE <<>>

\* the merge of lines 109-113: existing.notable_features = [...new Set(both)]
MergeFeatures(existing, item) ==
    SetField(existing, "notable_features", Uniq(FeaturesOf(existing) \o FeaturesOf(item)))

\* the inner loop from kept[k] on: the index of the first kept item that item
\* duplicates, 0 when there is none, -1 when a comparison throws
RECURSIVE FirstDuplicate(_, _, _)
FirstDuplicate(item, kept, k) ==
    IF k > Len(kept) THEN 0
    ELSE IF CategoryDiffers(item, kept[k]) THEN FirstDuplicate(item, kept, k + 1)
    ELSE IF SimilarityThrows(item, kept[k]) THEN -1
    ELSE IF IsDuplicateOf(item, kept[k]) THEN k
    ELSE FirstDuplicate(item, kept, k + 1)

\* one iteration of the outer loop for item: index is the kept item merged
\* into (0: item appended, -1: a comparison threw)
DedupIteration(item, kept) ==
    LET k == FirstDuplicate(item, kept, 1)
    IN  [index |-> k,
         kept  |-> IF k = -1 THEN kept
                   ELSE IF k = 0 THEN Append(kept, item)
                   ELSE [kept EXCEPT ![k] = MergeFeatures(kept[k], item)]]

\* the outer loop from sorted[i] on; [threw, kept]
RECURSIVE DedupWalk(_, _, _)
DedupWalk(sorted, i, kept) ==
    IF i > Len(sorted) THEN [threw |-> FALSE, kept |-> kept]
    ELSE LET step == DedupIteration(sorted[i], kept)
         IN  IF step.index = -1 THEN [threw |-> TRUE, kept |-> kept]
             ELSE DedupWalk(sorted, i + 1, step.kept)

\* bug variant: an unstable sort that reverses items of equal confidence
SortByConfidenceUnstable(items) ==
    LET n == Len(items)
        reversed == [i \in 1..n |-> items[n + 1 - i]]
    IN  SortDesc(reversed, [i \in 1..n |-> confidenceRank(reversed[i])])

SortByConfidence(items) ==
    SortDesc(items, [i \in DOMAIN items |-> confidenceRank(items[i])])

\* [threw |-> TRUE, ...] when the call throws, else kept is the returned list
deduplicateItemsResult(items) == DedupWalk(SortByConfidence(items), 1, <<>>)

deduplicateItems(items) == deduplicateItemsResult(items).kept

-----------------------------------------------------------------------------
(* Inputs of the deduplicator: items with name, search_query and category *)

MaxItems == 3

StrAbcdef  == <<"a", "b", "c", "d", "e", "f">>
StrAbcd    == <<"A", "B", "c", "d">>
StrAbcdexy == <<"a", "b", "c", "d", "e", "x", "y">>
StrXy      == <<"x", "y">>

\* (name, search_query) pairs: 1 and 2 have name similarity exactly 0.75,
\* 1 and 3 have query similarity 8/11 (and name similarity 8/11), 2 and 3
\* are similar in neither
NameQueryPairs ==
    << [name |-> StrAbcdef,  search_query |-> StrAbcdef,  notable_features |-> <<"f">>],
       [name |-> StrAbcd,    search_query |-> StrXy,      notable_features |-> <<"g", "f">>],
       [name |-> StrAbcdexy, search_query |-> StrAbcdexy] >>

DedupCategories == {"kitchenware", "art"}
Confidences == {"high", "medium", "low"}

DedupUniverse ==
    { SetField(SetField(NameQueryPairs[p], "category", c), "confidence", conf) :
        p \in DOMAIN NameQueryPairs, c \in DedupCategories, conf \in Confidences }

SeqsUpTo(S, n) == UNION { [1..m -> S] : m \in 0..n }

\* similarity is not being called
SimIdle == simA = <<>> /\ simB = <<>> /\ simScore = <<>>

\* no page is open
ClientIdle ==
    /\ analyzingSaleId = <<>> /\ analysisSale = <<>> /\ analysisData = <<>>
    /\ analysisLoading = FALSE /\ analysisError = <<>> /\ analysisCache = <<>>
    /\ analyzeCalls = <<>> /\ analyzeLog = <<>>

\* no request is at the gate
AuthIdle ==
    /\ sitePassword = <<>> /\ cookieJar = <<>> /\ httpRequest = <<>>
    /\ httpStage = "idle" /\ httpResponse = <<>>

\* the handler is not running
PostIdle ==
    /\ request = <<>> /\ env = <<>> /\ pc = "idle" /\ saleOutcome = <<>>
    /\ pictures = <<>> /\ photosToAnalyze = <<>> /\ photoTasks = <<>> /\ photoLoop = 0
    /\ allItems = <<>> /\ deduplicated = <<>> /\ lookupTasks = <<>> /\ lookupLoop = 0
    /\ lookupLimit = 0
    /\ priceLookups = <<>> /\ ebayAvailable = FALSE /\ response = <<>>
    /\ outbound = <<>>

DedupInit ==
    /\ PostIdle
    /\ SimIdle
    /\ ClientIdle
    /\ AuthIdle
    /\ dedupInput \in SeqsUpTo(DedupUniverse, MaxItems)
    /\ dedupPc = "start"
    /\ dedupSorted = <<>>
    /\ dedupIdx = 1
    /\ dedupKept = <<>>
    /\ dedupMerge = <<>>
    /\ dedupAgain = <<>>

\* lines 95-100: sort a copy by confidence, kept = []
DedupSort ==
    /\ dedupPc = "start"
    /\ dedupSorted' = SortByConfidence(dedupInput)
    /\ dedupPc' = "loop"
    /\ UNCHANGED <<dedupInput, dedupIdx, dedupKept, dedupMerge, dedupAgain, postVars,
                   simVars, clientVars, authVars>>

\* lines 101-121: one item of sorted is merged into a kept item or appended
DedupLoop ==
    /\ dedupPc = "loop"
    /\ dedupIdx <= Len(dedupSorted)
    /\ LET item == dedupSorted[dedupIdx]
           step == DedupIteration(item, dedupKept)
       IN  /\ dedupKept' = step.kept
           /\ dedupMerge' =
                 IF step.index > 0
                 THEN <<[item |-> item, index |-> step.index,
                         existing |-> dedupKept[step.index]]>>
                 ELSE <<>>
           /\ dedupPc' = IF step.index = -1 THEN "threw" ELSE "loop"
    /\ dedupIdx' = dedupIdx + 1
    /\ UNCHANGED <<dedupInput, dedupSorted, dedupAgain, postVars, simVars, clientVars, authVars>>

\* line 122: return kept
DedupReturn ==
    /\ dedupPc = "loop"
    /\ dedupIdx > Len(dedupSorted)
    /\ dedupPc' = "returned"
    /\ dedupMerge' = <<>>
    /\ UNCHANGED <<dedupInput, dedupSorted, dedupIdx, dedupKept, dedupAgain, postVars,
                   simVars, clientVars, authVars>>

\* the deduplicator run on its own output
DeduplicateAgain ==
    /\ dedupPc = "returned"
    /\ dedupAgain' = deduplicateItems(dedupKept)
    /\ dedupPc' = "rerun"
    /\ UNCHANGED <<dedupInput, dedupSorted, dedupIdx, dedupKept, dedupMerge, postVars,
                   simVars, clientVars, authVars>>

DedupNext == DedupSort \/ DedupLoop \/ DedupReturn \/ DeduplicateAgain

SpecDedup == DedupInit /\ [][DedupNext]_vars

-----------------------------------------------------------------------------
(* Dollar amounts.  Every amount is held in quarter dollars, so that the   *)
(* sold prices the marketplace reports (floats such as 0.25 or 12.5) and   *)
(* the whole-dollar results of parseInt and Math.round are all integers;   *)
(* multiples of 0.25 are exact in double precision.                        *)

Dollars(n) == 4 * n

\* Math.round of q quarter dollars, in dollars (half rounds up)
RoundToDollars(q) == (q + 2) \div 4

IsDigit(c) == c \in {"0", "1", "2", "3", "4", "5", "6", "7", "8", "9"}

DigitValue(c) ==
    CASE c = "0" -> 0 [] c = "1" -> 1 [] c = "2" -> 2 [] c = "3" -> 3 [] c = "4" -> 4
      [] c = "5" -> 5 [] c = "6" -> 6 [] c = "7" -> 7 [] c = "8" -> 8 [] c = "9" -> 9

\* parseInt of the digits s[i..j]
RECURSIVE parseInt(_, _, _)
parseInt(s, i, j) ==
    IF j < i THEN 0 ELSE 10 * parseInt(s, i, j - 1) + DigitValue(s[j])

\* end of the run of digits that starts at s[i]
RECURSIVE DigitsEnd(_, _)
DigitsEnd(s, i) ==
    IF i + 1 <= Len(s) /\ IsDigit(s[i + 1]) THEN DigitsEnd(s, i + 1) ELSE i

\* hint.match(/\$(\d+)/g) from position i on: the numbers after each "$"
RECURSIVE DollarMatches(_, _)
DollarMatches(s, i) ==
    IF i >= Len(s) THEN <<>>
    ELSE IF s[i] = "$" /\ IsDigit(s[i + 1])
         THEN <<parseInt(s, i + 1, DigitsEnd(s, i + 1))>>
                  \o DollarMatches(s, DigitsEnd(s, i + 1) + 1)
         ELSE DollarMatches(s, i + 1)

\* item.estimated_value_hint is a non-empty string
HasHint(item) == Has(item, "estimated_value_hint") /\ item.estimated_value_hint # <<>>

\* A value that is not a string (the number 50 where a string is expected)
\* is a sequence that starts with NotAString.
NotAString == "(number)"
IsString(v) == v = <<>> \/ v[1] # NotAString

\* hint.match(...) is a TypeError: the hint is truthy and has no match method
HintThrows(item) == HasHint(item) /\ ~IsString(item.estimated_value_hint)

\* parseEstimate(item.estimated_value_hint), in dollars
parseEstimate(item) ==
    IF ~HasHint(item) THEN 0
    ELSE LET matches == DollarMatches(item.estimated_value_hint, 1)
         IN  IF matches = <<>> THEN 0 ELSE matches[1]

\* the low and high bound read from the hint (lines 273-276 and the same
\* code in batchPriceLookup); <<>> when the hint has no dollar amount
HintBounds(item) ==
    IF ~HasHint(item) THEN <<>>
    ELSE LET matches == DollarMatches(item.estimated_value_hint, 1)
         IN  IF matches = <<>> THEN <<>>
             ELSE <<matches[1], IF Len(matches) >= 2 THEN matches[2] ELSE matches[1]>>

-----------------------------------------------------------------------------
(* The vision model's reply and parseItemsFromResponse.  A reply text is   *)
(* [fenced, form, items]: fenced when it is wrapped in ``` code fencing;   *)
(* form "array" (a JSON array), "object" (one JSON object), "embedded" (a  *)
(* JSON array with prose around it) or "garbage" (no JSON at all); items   *)
(* is the list of objects the JSON holds.                                  *)

\* JSON.parse(cleaned) of line 48 throws
DirectParseThrows(text) == text.form \in {"embedded", "garbage"}

\* [threw, items]: the array parseItemsFromResponse returns, or that it threw
parseItemsFromResponse(text) ==
    IF ~DirectParseThrows(text)
    THEN [threw |-> FALSE,
          items |-> IF text.form = "array" THEN text.items ELSE <<text.items[1]>>]
    ELSE IF text.form = "embedded"
         THEN [threw |-> FALSE, items |-> text.items]
         ELSE [threw |-> TRUE, items |-> <<>>]

\* photo.thumbnailUrl || photo.url
PhotoUrl(photo) == IF Has(photo, "thumbnailUrl") THEN photo.thumbnailUrl ELSE photo.url

\* lines 205-209: every parsed item tagged with its photo
TagItems(items, photoIdx, photo) ==
    [k \in DOMAIN items |->
        SetField(SetField(items[k], "photoIndex", photoIdx), "photoUrl", PhotoUrl(photo))]

Hint50to100 == <<"$", "5", "0", "-", "1", "0", "0">>
Hint2to8    == <<"$", "2", "-", "$", "8">>

ItemBowl ==
    [name |-> StrAbcdef, category |-> "kitchenware", confidence |-> "high",
     search_query |-> StrAbcdef, notable_features |-> <<"f">>,
     estimated_value_hint |-> Hint50to100]
\* a near-duplicate of ItemBowl (name similarity 0.75)
ItemBowlAgain ==
    [name |-> StrAbcd, category |-> "kitchenware", confidence |-> "medium",
     search_query |-> StrAbcd, notable_features |-> <<"g", "f">>,
     estimated_value_hint |-> Hint2to8]
\* the name of ItemBowl in another category
ItemPrint ==
    [name |-> StrAbcdef, category |-> "art", confidence |-> "low",
     search_query |-> StrAbcdexy, estimated_value_hint |-> Hint2to8]
ItemSaw ==
    [name |-> StrXy, category |-> "tools", confidence |-> "medium",
     search_query |-> StrXy, notable_features |-> <<"g">>]
ItemDish ==
    [name |-> StrAbcdexy, category |-> "kitchenware", confidence |-> "low",
     search_query |-> <<"x">>, notable_features |-> <<>>,
     estimated_value_hint |-> Hint50to100]
\* an object without name and search_query, its category outside the list
ItemVague == [category |-> "gadgets", confidence |-> "low"]

VisionTexts ==
    { [fenced |-> FALSE, form |-> "array",    items |-> <<ItemBowl, ItemBowlAgain>>],
      [fenced |-> TRUE,  form |-> "embedded", items |-> <<ItemPrint, ItemSaw, ItemDish>>],
      [fenced |-> FALSE, form |-> "object",   items |-> <<ItemVague>>],
      [fenced |-> FALSE, form |-> "garbage",  items |-> <<>>] }

-----------------------------------------------------------------------------
(* findSoldListings: statistics over the sold prices of a response *)

Min(S) == CHOOSE x \in S : \A y \in S : x <= y
Max(S) == CHOOSE x \in S : \A y \in S : x >= y

RECURSIVE Sum(_)
Sum(s) == IF s = <<>> THEN 0 ELSE s[1] + Sum(Tail(s))

\* [...arr].sort((a, b) => a - b)
SortAsc(arr) == SortDesc(arr, [i \in DOMAIN arr |-> 0 - arr[i]])

\* bug variant: for an even count the upper middle element alone
medianUpperMiddle(arr) ==
    LET sorted == SortAsc(arr)
    IN  Dollars(RoundToDollars(sorted[Len(sorted) \div 2 + 1]))

\* median(arr), in quarter dollars: the middle element, or the mean of the
\* two middle elements, rounded to whole dollars
median(arr) ==
    LET sorted == SortAsc(arr)
        mid    == Len(sorted) \div 2      \* 0-based index of the code
    IN  IF Len(sorted) % 2 # 0
        THEN Dollars(RoundToDollars(sorted[mid + 1]))
        ELSE Dollars((sorted[mid] + sorted[mid + 1] + 4) \div 8)

\* Math.round(sum / prices.length), in quarter dollars
MeanPrice(prices) ==
    Dollars((2 * Sum(prices) + 4 * Len(prices)) \div (8 * Len(prices)))

Filter(s, Keep(_)) ==
    LET idx == { i \in DOMAIN s : Keep(s[i]) }
        pos(i) == Cardinality({ j \in idx : j < i }) + 1
    IN  [p \in 1..Cardinality(idx) |-> s[CHOOSE i \in idx : pos(i) = p]]

\* lines 300-320: soldPrices are the soldPrice of the items of the response
PriceStats(soldPrices, totalResults) ==
    LET Positive(x) == x > 0
        prices == Filter(soldPrices, Positive)
    IN  IF Len(prices) > 0
        THEN [available |-> TRUE, count |-> Len(prices), totalResults |-> totalResults,
              median |-> median(prices), mean |-> MeanPrice(prices),
              low |-> Min(Range(prices)), high |-> Max(Range(prices)),
              recentSales |-> SubSeq(soldPrices, 1, IF Len(soldPrices) < 5
                                                    THEN Len(soldPrices) ELSE 5)]
        ELSE [available |-> TRUE, count |-> 0, totalResults |-> totalResults,
              median |-> 0, mean |-> 0, low |-> 0, high |-> 0, recentSales |-> <<>>]

Unavailable(reason) == [available |-> FALSE, reason |-> reason]

Thrown(message) == [threw |-> TRUE, message |-> message]
Returned(value) == [threw |-> FALSE, value |-> value]

\* lines 270-320, the try block of findSoldListings on the marketplace's
\* reply: the value it returns, or the error it throws
TryBlock(reply) ==
    CASE reply.kind = "networkError" -> Thrown("fetch failed")
      [] reply.kind = "httpError"    -> Thrown("eBay API error: 500")
      [] reply.kind = "notJson"      -> Thrown("Unexpected token < in JSON at position 0")
      [] reply.kind = "noResponse"   -> Thrown("Unknown eBay API error")
      [] reply.kind = "ackFailure"   -> Thrown(reply.errorMessage)
      [] reply.kind = "itemsNotList" -> Thrown("items.map is not a function")
      [] reply.kind = "success"      ->
            Returned(PriceStats(reply.soldPrices, reply.totalEntries))

\* bug variant: the error is thrown on to the caller
CatchRethrows(attempt) == attempt

\* lines 321-324: the catch clause
CatchClause(attempt) ==
    IF attempt.threw THEN Returned(Unavailable(attempt.message)) ELSE attempt

\* lines 269-324: how findSoldListings ends for a marketplace reply
findSoldListings(reply) == CatchClause(TryBlock(reply))

\* the sold prices the marketplace holds for a search phrase
SoldPricesFor(searchQuery) ==
    CASE searchQuery = StrAbcdef  -> <<Dollars(40), Dollars(90), Dollars(20)>>
      [] searchQuery = StrAbcd    -> <<Dollars(10), Dollars(25)>>
      [] searchQuery = StrAbcdexy -> <<1, 0>>
      [] OTHER                    -> <<>>

MaxPrices == 3

\* a phrase on which the marketplace fails, in each of the ways it can
StrDown == <<"d", "o", "w", "n">>
\* a phrase for which the marketplace may hold any list of sold prices
StrAny  == <<"a", "n", "y">>

\* sold prices in quarter dollars: 0, 0.50, 10, 10.50, 20 and 30 dollars
PriceValues == {0, 2, Dollars(10), Dollars(10) + 2, Dollars(20), Dollars(30)}

FailureReplies ==
    { [kind |-> "networkError"], [kind |-> "httpError"], [kind |-> "notJson"],
      [kind |-> "noResponse"], [kind |-> "itemsNotList"],
      [kind |-> "ackFailure", errorMessage |-> "Invalid keywords"] }

\* the responses the marketplace may give to a search
MarketResponses(searchQuery) ==
    IF searchQuery = StrDown THEN FailureReplies
    ELSE IF searchQuery = StrAny
    THEN { [kind |-> "success", soldPrices |-> prices, totalEntries |-> Len(prices)] :
              prices \in UNION { [1..n -> PriceValues] : n \in 0..MaxPrices } }
    ELSE { [kind |-> "httpError"],
           [kind |-> "success", soldPrices |-> SoldPricesFor(searchQuery),
            totalEntries |-> Len(SoldPricesFor(searchQuery))] }

-----------------------------------------------------------------------------
(* POST /api/analyze: one invocation.  An action is one synchronous run of *)
(* the handler or of one of its async tasks, from the settling of the      *)
(* promise it awaits to its next await.                                    *)

MaxPictures == 4

concurrency == 3
lookupConcurrency == 3
defaultMaxPhotos == 10

Requests ==
    { [saleId |-> ""], [saleId |-> "4471"], [saleId |-> "4471", maxPhotos |-> 2] }

Envs == [ANTHROPIC_API_KEY : BOOLEAN, EBAY_APP_ID : BOOLEAN]

\* the listing's photo collection: n photos
Pictures(n) == [k \in 1..n |-> [url |-> k]]

\* how the fetch of the listing may settle
SaleOutcomes ==
    { [kind |-> "threw"], [kind |-> "notOk"] }
        \cup { [kind |-> "ok", pictures |-> Pictures(n)] : n \in 0..MaxPictures }

\* how the vision call of a photo may settle
VisionReplies ==
    { [kind |-> "error"] } \cup { [kind |-> "message", text |-> t] : t \in VisionTexts }

\* Array.prototype.slice(0, end)
Slice0(s, end) ==
    LET stop == IF end < 0 THEN (IF Len(s) + end < 0 THEN 0 ELSE Len(s) + end)
                ELSE IF end > Len(s) THEN Len(s) ELSE end
    IN  SubSeq(s, 1, stop)

\* const { ..., maxPhotos = 10 } = await request.json()
maxPhotosOf(req) == IF Has(req, "maxPhotos") THEN req.maxPhotos ELSE defaultMaxPhotos

\* bug variant: only the listing id is validated
ConfigErrorIdOnly(req, environment) ==
    IF req.saleId = "" THEN <<[status |-> 400, body |-> [error |-> "saleId is required"]]>>
    ELSE <<>>

\* lines 129-138: the failure response of the validation, <<>> when it passes
ConfigError(req, environment) ==
    IF req.saleId = ""
    THEN <<[status |-> 400, body |-> [error |-> "saleId is required"]]>>
    ELSE IF ~environment.ANTHROPIC_API_KEY
    THEN <<[status |-> 500, body |-> [error |-> "ANTHROPIC_API_KEY not configured"]]>>
    ELSE <<>>

\* lines 295-301: the response of the catch block
AnalysisFailed(message) ==
    <<[status |-> 500, body |-> [error |-> "Analysis failed", message |-> message]]>>

\* bug variant: the status of the listing response is not tested
SaleFetchFailedThrowOnly(outcome) == outcome.kind = "threw"

\* line 141 throws, or line 151 finds a non-success status
SaleFetchFailed(outcome) == outcome.kind \in {"threw", "notOk"}

\* saleData.pictures || []
PicturesOf(outcome) == IF Has(outcome, "pictures") THEN outcome.pictures ELSE <<>>

\* bug variant: no short circuit for a listing without photos
NoPhotosNever(pics) == FALSE

\* line 158
NoPhotos(pics) == Len(pics) = 0

\* how Array.prototype.slice reads a bound x on an array of n elements: a
\* negative bound counts from the end
SliceIndex(n, x) == IF x < 0 THEN Max({n + x, 0}) ELSE Min({x, n})

\* the positions (1-based) of the batch that starts at 0-based index i:
\* slice(i, i + limit)
BatchOf(tasks, i, limit) ==
    { k \in DOMAIN tasks :
        SliceIndex(Len(tasks), i) < k /\ k <= SliceIndex(Len(tasks), i + limit) }

\* the task's promise is fulfilled or rejected
Settled(task) == task.state \in {"fulfilled", "rejected"}

\* bug variant: the loop goes on as soon as one task has settled
BatchAnySettled(tasks, i, limit) ==
    \E k \in BatchOf(tasks, i, limit) : Settled(tasks[k])

\* bug variant: the loop awaits the last task of the batch only
BatchLastSettled(tasks, i, limit) ==
    \A k \in BatchOf(tasks, i, limit) :
        k = Max(BatchOf(tasks, i, limit)) => Settled(tasks[k])

\* bug variant: the loop goes on when the first task of the batch has settled
BatchFirstSettled(tasks, i, limit) ==
    \A k \in BatchOf(tasks, i, limit) : k = i + 1 => Settled(tasks[k])

\* Promise.allSettled(batch) resolves
BatchSettled(tasks, i, limit) ==
    \A k \in BatchOf(tasks, i, limit) : Settled(tasks[k])

RECURSIVE Flatten(_)
Flatten(lists) == IF lists = <<>> THEN <<>> ELSE lists[1] \o Flatten(Tail(lists))

\* 'unknown'
StrUnknown == <<"u", "n", "k", "n", "o", "w", "n">>

\* bug variant: as in the photo loop, a rejected task adds nothing
PushedFulfilledOnly(task) == IF task.state = "fulfilled" THEN task.value ELSE <<>>

\* what the loops of lines 217-221 and 368-374 push for one settled task:
\* the value of a fulfilled task; for a rejected lookup an 'unknown' result
Pushed(task) ==
    IF task.state = "fulfilled" THEN task.value
    ELSE IF task.state = "rejected"
    THEN <<[itemName |-> StrUnknown, ebay |-> [available |-> FALSE, reason |-> task.reason]]>>
    ELSE <<>>

\* bug variant: the first photo without items ends the collection of a batch
CollectUntilFailure(tasks, i, limit) ==
    LET batch == BatchOf(tasks, i, limit)
        bad   == { k \in batch : Pushed(tasks[k]) = <<>> }
        stop  == IF bad = {} THEN i + limit ELSE Min(bad) - 1
    IN  Flatten([k \in 1..Cardinality({ j \in batch : j <= stop }) |-> Pushed(tasks[i + k])])

\* bug variant: the results of a batch are collected last task first
CollectBatchReversed(tasks, i, limit) ==
    LET n == Cardinality(BatchOf(tasks, i, limit))
    IN  Flatten([k \in 1..n |-> Pushed(tasks[i + n + 1 - k])])

\* lines 217-221 and 368-374: what the batch's tasks yield, in batch order
CollectBatch(tasks, i, limit) ==
    Flatten([k \in 1..Cardinality(BatchOf(tasks, i, limit)) |-> Pushed(tasks[i + k])])

\* batch.map(async ...) of line 173: every task of the batch starts its image fetch
StartPhotoBatch(tasks, i) ==
    [k \in DOMAIN tasks |->
        IF k \in BatchOf(tasks, i, concurrency) THEN [state |-> "fetch"] ELSE tasks[k]]

\* bug variant: a default marketplace credential is always present
EbayAppIdAlways(environment) == TRUE

\* process.env.EBAY_APP_ID is set (route.js line 229, findSoldListings line 210)
EbayAppId(environment) == environment.EBAY_APP_ID

\* item.name, which may be undefined
WithItemName(item, result) ==
    IF Has(item, "name") THEN SetField(result, "itemName", item.name) ELSE result

\* lines 350-361: the price filter derived from the hint
PriceFilter(item) ==
    LET bounds == HintBounds(item)
    IN  IF bounds = <<>> THEN [keywords |-> item.search_query]
        ELSE [keywords |-> item.search_query,
              minPrice |-> Max({1, (3 * bounds[1] + 5) \div 10}),
              maxPrice |-> 3 * bounds[2]]

\* bug variant: only a missing search_query counts, not the empty string
NoSearchQueryMissingOnly(item) == ~Has(item, "search_query")

\* !item.search_query
NoSearchQuery(item) == ~Has(item, "search_query") \/ item.search_query = <<>>

\* the synchronous start of one lookup task (lines 344-363, 209-270): it is
\* fulfilled at once, or its marketplace request is in flight
StartLookup(item, environment) ==
    IF NoSearchQuery(item)
    THEN [state |-> "fulfilled",
          value |-> <<WithItemName(item, [ebay |-> Unavailable("No search query")])>>]
    ELSE IF HintThrows(item)
    THEN [state |-> "rejected",
          reason |-> "item.estimated_value_hint.match is not a function"]
    ELSE IF ~EbayAppId(environment)
    THEN [state |-> "fulfilled",
          value |-> <<WithItemName(item,
                        [ebay |-> Unavailable("EBAY_APP_ID not configured")])>>]
    ELSE [state |-> "calling"]

StartLookupBatch(tasks, items, i, limit, environment) ==
    [k \in DOMAIN tasks |->
        IF k \in BatchOf(tasks, i, limit)
        THEN StartLookup(items[k], environment) ELSE tasks[k]]

\* the marketplace requests the tasks of the batch have sent
LookupCalls(tasks, items, i, limit) ==
    { SetField(PriceFilter(items[k]), "item", k) :
        k \in { j \in BatchOf(tasks, i, limit) : tasks[j].state = "calling" } }

\* r.itemName === item.name
SameName(r, item) ==
    IF Has(r, "itemName") /\ Has(item, "name") THEN r.itemName = item.name
    ELSE Has(r, "itemName") = Has(item, "name")

\* priceLookups.find(r => r.itemName === item.name): <<r>>, or <<>>
FindLookup(results, item) ==
    LET hits == { k \in DOMAIN results : SameName(results[k], item) }
    IN  IF hits = {} THEN <<>> ELSE <<results[Min(hits)]>>

\* lookup?.ebay?.available && lookup.ebay.count > 0
HasComps(found) ==
    found # <<>> /\ found[1].ebay.available /\ found[1].ebay.count > 0

\* lines 239-247
CompData(ebay) ==
    [median |-> ebay.median, mean |-> ebay.mean, low |-> ebay.low, high |-> ebay.high,
     count |-> ebay.count, totalResults |-> ebay.totalResults,
     recentSales |-> ebay.recentSales]

\* bug variant: only the items that obtained comp data are kept
MergeLookupsCompsOnly(items, results) ==
    LET idx    == { k \in DOMAIN items : HasComps(FindLookup(results, items[k])) }
        pos(k) == Cardinality({ j \in idx : j < k }) + 1
        at(p)  == CHOOSE k \in idx : pos(k) = p
    IN  [p \in 1..Cardinality(idx) |->
            SetField(items[at(p)], "ebay",
                     CompData(FindLookup(results, items[at(p)])[1].ebay))]
\* lines 234-250: the items with the comp data of their lookups merged in
MergeLookups(items, results) ==
    [k \in DOMAIN items |->
        LET found == FindLookup(results, items[k])
        IN  IF HasComps(found)
            THEN SetField(items[k], "ebay", CompData(found[1].ebay))
            ELSE items[k]]

\* bug variant: the flag is set by any lookup the marketplace answered
AnyLookupAvailable(items, results) ==
    \E k \in DOMAIN results : results[k].ebay.available

\* line 248: ebayAvailable after the merge loop
AnyComps(items, results) ==
    \E k \in DOMAIN items : HasComps(FindLookup(results, items[k]))

\* a.ebay?.median || parseEstimate(a.estimated_value_hint)
SortValue(item) ==
    IF Has(item, "ebay") /\ item.ebay.median # 0 THEN item.ebay.median
    ELSE Dollars(parseEstimate(item))

\* lines 257-261
SortByValue(items) == SortDesc(items, [k \in DOMAIN items |-> SortValue(items[k])])

\* bug variant: the hint is read first, the comp data only without a hint
ItemTotalsHintFirst(item) ==
    IF HintBounds(item) # <<>>
    THEN [low |-> Dollars(HintBounds(item)[1]), high |-> Dollars(HintBounds(item)[2]),
          median |-> 0]
    ELSE IF Has(item, "ebay")
    THEN [low |-> item.ebay.low, high |-> item.ebay.high, median |-> item.ebay.median]
    ELSE [low |-> 0, high |-> 0, median |-> 0]
\* lines 267-279: what one item adds to totalLow, totalHigh, totalEbayMedian
ItemTotals(item) ==
    IF Has(item, "ebay")
    THEN [low |-> item.ebay.low, high |-> item.ebay.high, median |-> item.ebay.median]
    ELSE IF HintBounds(item) # <<>>
    THEN [low |-> Dollars(HintBounds(item)[1]), high |-> Dollars(HintBounds(item)[2]),
          median |-> 0]
    ELSE [low |-> 0, high |-> 0, median |-> 0]

\* lines 258-259 and 272-273: the comparator (called when there are two
\* items or more) or the totals loop reads a hint that is not a string
SummaryThrows(items) ==
    \E k \in DOMAIN items :
        /\ HintThrows(items[k])
        /\ \/ ~Has(items[k], "ebay")
           \/ Len(items) >= 2 /\ items[k].ebay.median = 0

\* lines 281-294
Report(items, analyzed, total, available) ==
    LET totals == [k \in DOMAIN items |-> ItemTotals(items[k])]
        low    == Sum([k \in DOMAIN items |-> totals[k].low])
        high   == Sum([k \in DOMAIN items |-> totals[k].high])
        med    == Sum([k \in DOMAIN items |-> totals[k].median])
    IN  <<[status |-> 200,
           body |-> [items |-> items,
                     summary |-> [photosAnalyzed |-> Len(analyzed),
                                  totalPhotos |-> Len(total),
                                  itemsFound |-> Len(items),
                                  ebayAvailable |-> available,
                                  estimatedTotalValue |->
                                      IF available
                                      THEN [low |-> low, high |-> high, ebayMedian |-> med]
                                      ELSE [low |-> low, high |-> high]]]]>>

\* the deduplicator is not running
DedupIdle ==
    /\ dedupInput = <<>> /\ dedupPc = "idle" /\ dedupSorted = <<>> /\ dedupIdx = 1
    /\ dedupKept = <<>> /\ dedupMerge = <<>> /\ dedupAgain = <<>>

NoCalls == [listing |-> 0, image |-> {}, vision |-> {}, lookup |-> {}]

Init ==
    /\ DedupIdle
    /\ SimIdle
    /\ ClientIdle
    /\ AuthIdle
    /\ request \in Requests
    /\ env \in Envs
    /\ pc = "request"
    /\ saleOutcome = <<>>
    /\ pictures = <<>>
    /\ photosToAnalyze = <<>>
    /\ photoTasks = <<>>
    /\ photoLoop = 0
    /\ allItems = <<>>
    /\ deduplicated = <<>>
    /\ lookupTasks = <<>>
    /\ lookupLimit = 0
    /\ lookupLoop = 0
    /\ priceLookups = <<>>
    /\ ebayAvailable = FALSE
    /\ response = <<>>
    /\ outbound = NoCalls

\* lines 127-149: validate, then request the listing's photos
ReceiveRequest ==
    /\ pc = "request"
    /\ LET failure == ConfigError(request, env)
       IN  IF failure # <<>>
           THEN /\ response' = failure
                /\ pc' = "done"
                /\ UNCHANGED outbound
           ELSE /\ pc' = "fetchSale"
                /\ outbound' = [outbound EXCEPT !.listing = @ + 1]
                /\ UNCHANGED response
    /\ UNCHANGED <<request, env, saleOutcome, pictures, photosToAnalyze, photoTasks,
                   photoLoop, allItems, deduplicated, lookupTasks, lookupLimit, lookupLoop,
                   priceLookups, ebayAvailable, dedupVars, simVars, clientVars, authVars>>

\* lines 141-173: the listing fetch settles; on success the first batch starts
SaleFetchSettles ==
    /\ pc = "fetchSale"
    /\ \E outcome \in SaleOutcomes :
          /\ saleOutcome' = <<outcome.kind>>
          /\ IF SaleFetchFailed(outcome)
             THEN /\ response' = AnalysisFailed("Failed to fetch sale details")
                  /\ pc' = "done"
                  /\ UNCHANGED <<pictures, photosToAnalyze, photoTasks, outbound>>
             ELSE IF NoPhotos(PicturesOf(outcome))
             THEN /\ pictures' = PicturesOf(outcome)
                  /\ response' =
                        <<[status |-> 200,
                           body |-> [items |-> <<>>,
                                     message |-> "No photos found for this sale"]]>>
                  /\ pc' = "done"
                  /\ UNCHANGED <<photosToAnalyze, photoTasks, outbound>>
             ELSE LET photos == Slice0(PicturesOf(outcome), maxPhotosOf(request))
                      tasks  == StartPhotoBatch([k \in DOMAIN photos |-> [state |-> "pending"]], 0)
                  IN  /\ pictures' = PicturesOf(outcome)
                      /\ photosToAnalyze' = photos
                      /\ photoTasks' = tasks
                      /\ outbound' = [outbound EXCEPT
                                        !.image = @ \cup BatchOf(tasks, 0, concurrency)]
                      /\ pc' = IF photos = <<>> THEN "deduplicate" ELSE "analyzing"
                      /\ UNCHANGED response
    /\ UNCHANGED <<request, env, photoLoop, allItems, deduplicated, lookupTasks,
                   lookupLimit, lookupLoop, priceLookups, ebayAvailable, dedupVars,
                                  simVars, clientVars, authVars>>

\* lines 176-178, 210-213: the image fetch of photo k settles; the vision
\* call starts, or the task ends with no items
ImageFetchSettles ==
    /\ pc = "analyzing"
    /\ \E k \in DOMAIN photoTasks, ok \in BOOLEAN :
          /\ photoTasks[k].state = "fetch"
          /\ IF ok
             THEN /\ photoTasks' = [photoTasks EXCEPT ![k] = [state |-> "vision"]]
                  /\ outbound' = [outbound EXCEPT !.vision = @ \cup {k}]
             ELSE /\ photoTasks' = [photoTasks EXCEPT
                                      ![k] = [state |-> "fulfilled", value |-> <<>>]]
                  /\ UNCHANGED outbound
    /\ UNCHANGED <<request, env, pc, saleOutcome, pictures, photosToAnalyze, photoLoop,
                   allItems, deduplicated, lookupTasks, lookupLimit, lookupLoop, priceLookups,
                   ebayAvailable, response, dedupVars, simVars, clientVars, authVars>>

\* lines 178-213: the vision call of photo k settles; its reply is parsed
VisionSettles ==
    /\ pc = "analyzing"
    /\ \E k \in DOMAIN photoTasks, reply \in VisionReplies :
          /\ photoTasks[k].state = "vision"
          /\ photoTasks' = [photoTasks EXCEPT ![k] =
                IF reply.kind = "error" \/ parseItemsFromResponse(reply.text).threw
                THEN [state |-> "fulfilled", value |-> <<>>]
                ELSE [state |-> "fulfilled", text |-> reply.text,
                      value |-> TagItems(parseItemsFromResponse(reply.text).items,
                                         k - 1, photosToAnalyze[k])]]
    /\ UNCHANGED <<request, env, pc, saleOutcome, pictures, photosToAnalyze, photoLoop,
                   allItems, deduplicated, lookupTasks, lookupLimit, lookupLoop, priceLookups,
                   ebayAvailable, response, outbound, dedupVars, simVars, clientVars, authVars>>

\* lines 170-222: the batch has settled; its items are collected and the
\* next batch starts, or the loop ends
PhotoBatchSettled ==
    /\ pc = "analyzing"
    /\ BatchSettled(photoTasks, photoLoop, concurrency)
    /\ allItems' = allItems \o CollectBatch(photoTasks, photoLoop, concurrency)
    /\ photoLoop' = photoLoop + concurrency
    /\ IF photoLoop + concurrency < Len(photosToAnalyze)
       THEN /\ photoTasks' = StartPhotoBatch(photoTasks, photoLoop + concurrency)
            /\ outbound' = [outbound EXCEPT
                  !.image = @ \cup BatchOf(photoTasks, photoLoop + concurrency, concurrency)]
            /\ UNCHANGED pc
       ELSE /\ pc' = "deduplicate"
            /\ UNCHANGED <<photoTasks, outbound>>
    /\ UNCHANGED <<request, env, saleOutcome, pictures, photosToAnalyze, deduplicated,
                   lookupTasks, lookupLimit, lookupLoop, priceLookups, ebayAvailable, response,
                   dedupVars, simVars, clientVars, authVars>>

\* lines 225-231 and 338-366: deduplicate; with a marketplace credential
\* batchPriceLookup starts its first batch
DeduplicateAll ==
    /\ pc = "deduplicate"
    /\ LET result == deduplicateItemsResult(allItems)
           tasks  == StartLookupBatch([k \in DOMAIN result.kept |-> [state |-> "pending"]],
                                      result.kept, 0, lookupConcurrency, env)
       IN  IF result.threw
           THEN /\ response' = AnalysisFailed("Cannot read properties of undefined")
                /\ pc' = "done"
                /\ UNCHANGED <<deduplicated, lookupTasks, lookupLimit, outbound>>
           ELSE /\ deduplicated' = result.kept
                /\ UNCHANGED response
                /\ IF EbayAppId(env)
                   THEN /\ lookupTasks' = tasks
                        /\ lookupLimit' = lookupConcurrency
                        /\ outbound' = [outbound EXCEPT
                              !.lookup = @ \cup LookupCalls(tasks, result.kept, 0,
                                                            lookupConcurrency)]
                        /\ pc' = "enriching"
                   ELSE /\ pc' = "summarize"
                        /\ UNCHANGED <<lookupTasks, lookupLimit, outbound>>
    /\ UNCHANGED <<request, env, saleOutcome, pictures, photosToAnalyze, photoTasks,
                   photoLoop, allItems, lookupLoop, priceLookups, ebayAvailable,
                   dedupVars, simVars, clientVars, authVars>>

\* lines 363-364: the marketplace request of item k settles
LookupSettles ==
    /\ pc = "enriching"
    /\ \E k \in DOMAIN lookupTasks :
          /\ lookupTasks[k].state = "calling"
          /\ \E reply \in MarketResponses(deduplicated[k].search_query) :
                lookupTasks' = [lookupTasks EXCEPT ![k] =
                    LET ebay == findSoldListings(reply)
                    IN  IF ebay.threw
                        THEN [state |-> "rejected", reason |-> ebay.message]
                        ELSE [state |-> "fulfilled",
                              value |-> <<WithItemName(deduplicated[k],
                                                       [ebay |-> ebay.value])>>]]
    /\ UNCHANGED <<request, env, pc, saleOutcome, pictures, photosToAnalyze, photoTasks,
                   photoLoop, allItems, deduplicated, lookupLimit, lookupLoop, priceLookups,
                   ebayAvailable, response, outbound, dedupVars, simVars, clientVars, authVars>>

\* lines 341-377 and 231-250: the lookup batch has settled; the next batch
\* starts, or batchPriceLookup returns and the comp data is merged in
LookupBatchSettled ==
    /\ pc = "enriching"
    /\ BatchSettled(lookupTasks, lookupLoop, lookupLimit)
    /\ LET results == priceLookups \o CollectBatch(lookupTasks, lookupLoop, lookupLimit)
           next    == IF lookupLoop < Len(deduplicated) THEN lookupLoop + lookupLimit
                      ELSE lookupLoop
           tasks   == StartLookupBatch(lookupTasks, deduplicated, next, lookupLimit, env)
           merged  == MergeLookups(deduplicated, results)
       IN  /\ priceLookups' = results
           /\ lookupLoop' = next
           /\ IF next < Len(deduplicated)
              THEN /\ lookupTasks' = tasks
                   /\ outbound' = [outbound EXCEPT
                         !.lookup = @ \cup LookupCalls(tasks, deduplicated, next, lookupLimit)]
                   /\ UNCHANGED <<pc, deduplicated, ebayAvailable>>
              ELSE /\ deduplicated' = merged
                   /\ ebayAvailable' = AnyComps(deduplicated, results)
                   /\ pc' = "summarize"
                   /\ UNCHANGED <<lookupTasks, outbound>>
    /\ UNCHANGED <<request, env, saleOutcome, pictures, photosToAnalyze, photoTasks,
                   photoLoop, allItems, lookupLimit, response, dedupVars,
                                  simVars, clientVars, authVars>>

\* lines 257-294: sort by value, total the estimates, return the report;
\* a hint that is not a string ends the handler in its catch block
Summarize ==
    /\ pc = "summarize"
    /\ IF SummaryThrows(deduplicated)
       THEN /\ response' = AnalysisFailed("hint.match is not a function")
            /\ UNCHANGED deduplicated
       ELSE /\ deduplicated' = SortByValue(deduplicated)
            /\ response' = Report(SortByValue(deduplicated), photosToAnalyze, pictures,
                                  ebayAvailable)
    /\ pc' = "done"
    /\ UNCHANGED <<request, env, saleOutcome, pictures, photosToAnalyze, photoTasks,
                   photoLoop, allItems, lookupTasks, lookupLimit, lookupLoop, priceLookups,
                   ebayAvailable, outbound, dedupVars, simVars, clientVars, authVars>>

Next ==
    \/ ReceiveRequest
    \/ SaleFetchSettles
    \/ ImageFetchSettles
    \/ VisionSettles
    \/ PhotoBatchSettled
    \/ DeduplicateAll
    \/ LookupSettles
    \/ LookupBatchSettled
    \/ Summarize

Spec == Init /\ [][Next]_vars

-----------------------------------------------------------------------------
(* The second half of POST on its own: deduplication, enrichment, sort and *)
(* summary, started from the state in which the only photo of a listing    *)
(* has been analysed and the vision model has returned a JSON array of     *)
(* items.                                                                  *)

MaxFound == 3

StrCdx == <<"c", "d", "x">>
Hint1  == <<"$", "1">>

\* an item whose hint holds a single dollar amount and that has no comps
ItemCoin ==
    [name |-> StrCdx, category |-> "collectibles", confidence |-> "low",
     search_query |-> StrXy, estimated_value_hint |-> Hint1]

HintNumber == <<NotAString, "5", "0">>

\* an item with a search phrase whose hint is a number
ItemOddHint ==
    [name |-> StrCdx, category |-> "collectibles", confidence |-> "low",
     search_query |-> StrAbcd, estimated_value_hint |-> HintNumber]

ReportUniverse ==
    { ItemBowl, ItemBowlAgain, ItemPrint, ItemSaw, ItemDish, ItemCoin, ItemVague,
      ItemOddHint }

ReportInit ==
    /\ DedupIdle
    /\ SimIdle
    /\ ClientIdle
    /\ AuthIdle
    /\ request = [saleId |-> "4471"]
    /\ env \in { e \in Envs : e.ANTHROPIC_API_KEY }
    /\ pc = "deduplicate"
    /\ saleOutcome = <<"ok">>
    /\ pictures = Pictures(1)
    /\ photosToAnalyze = Pictures(1)
    /\ \E found \in SeqsUpTo(ReportUniverse, MaxFound) :
          /\ photoTasks =
                <<[state |-> "fulfilled",
                   text  |-> [fenced |-> FALSE, form |-> "array", items |-> found],
                   value |-> TagItems(found, 0, Pictures(1)[1])]>>
          /\ allItems = TagItems(found, 0, Pictures(1)[1])
    /\ photoLoop = concurrency
    /\ deduplicated = <<>>
    /\ lookupTasks = <<>>
    /\ lookupLimit = 0
    /\ lookupLoop = 0
    /\ priceLookups = <<>>
    /\ ebayAvailable = FALSE
    /\ response = <<>>
    /\ outbound = [listing |-> 1, image |-> {1}, vision |-> {1}, lookup |-> {}]

ReportNext ==
    \/ DeduplicateAll
    \/ LookupSettles
    \/ LookupBatchSettled
    \/ Summarize

SpecReport == ReportInit /\ [][ReportNext]_vars

-----------------------------------------------------------------------------
(* batchPriceLookup(items, concurrency) on its own, from the state in      *)
(* which its first batch has been started.  LookupBatchSettled ends with   *)
(* the caller's merge of the returned results.                             *)

MaxLookups == 3

Limits == {1, 2, 3}

StrDn == <<"d", "n">>

\* an item whose search phrase is the empty string and whose hint is a number
ItemNoQuery ==
    [name |-> StrXy, category |-> "tools", confidence |-> "medium",
     search_query |-> <<>>, estimated_value_hint |-> HintNumber]
\* an item on whose search phrase the marketplace fails
ItemDown ==
    [name |-> StrDn, category |-> "other", confidence |-> "low",
     search_query |-> StrDown]

LookupUniverse == { ItemBowl, ItemNoQuery, ItemVague, ItemOddHint, ItemDown }

\* batchPriceLookup(items, limit) up to its first await
LookupStart(items, limit, environment) ==
    /\ DedupIdle
    /\ SimIdle
    /\ ClientIdle
    /\ AuthIdle
    /\ request = <<>>
    /\ env = environment
    /\ pc = "enriching"
    /\ saleOutcome = <<>>
    /\ pictures = <<>>
    /\ photosToAnalyze = <<>>
    /\ photoTasks = <<>>
    /\ photoLoop = 0
    /\ allItems = <<>>
    /\ deduplicated = items
    /\ lookupLimit = limit
    /\ lookupLoop = 0
    /\ lookupTasks =
          StartLookupBatch([k \in DOMAIN items |-> [state |-> "pending"]],
                           items, 0, limit, environment)
    /\ priceLookups = <<>>
    /\ ebayAvailable = FALSE
    /\ response = <<>>
    /\ outbound = [NoCalls EXCEPT !.lookup = LookupCalls(lookupTasks, items, 0, limit)]

LookupInit ==
    \E items \in SeqsUpTo(LookupUniverse, MaxLookups), limit \in Limits,
       environment \in { e \in Envs : e.ANTHROPIC_API_KEY } :
        LookupStart(items, limit, environment)

LookupNext == LookupSettles \/ LookupBatchSettled

SpecLookup == LookupInit /\ [][LookupNext]_vars

-----------------------------------------------------------------------------
(* findSoldListings on a successful response that holds any list of sold   *)
(* prices: one lookup, for a phrase without restriction on the prices.     *)

ItemAny ==
    [name |-> StrAny, category |-> "other", confidence |-> "low", search_query |-> StrAny]

StatsInit ==
    LookupStart(<<ItemAny>>, lookupConcurrency,
                [ANTHROPIC_API_KEY |-> TRUE, EBAY_APP_ID |-> TRUE])

SpecStats == StatsInit /\ [][LookupNext]_vars
-----------------------------------------------------------------------------
(* similarity(a, b) on its own, for every pair of short strings *)

MaxLen == 3

Alphabet == {"a", "A", "b"}

Strings == UNION { [1..n -> Alphabet] : n \in 0..MaxLen }

SimilarityInit ==
    /\ DedupIdle
    /\ PostIdle
    /\ ClientIdle
    /\ AuthIdle
    /\ simA \in Strings
    /\ simB \in Strings
    /\ simScore = <<>>

\* lines 61-84: similarity(a, b) returns
SimilarityReturns ==
    /\ simScore = <<>>
    /\ simScore' = <<similarity(simA, simB)>>
    /\ UNCHANGED <<simA, simB, dedupVars, postVars, clientVars, authVars>>

SimilarityNext == SimilarityReturns

SpecSimilarity == SimilarityInit /\ [][SimilarityNext]_vars

-----------------------------------------------------------------------------
(* Properties of one invocation of POST, under Spec *)

\* outbound calls in flight: the listing fetch, the image fetch or vision
\* call of a photo task, the marketplace request of a lookup task
InFlight ==
    (IF pc = "fetchSale" THEN 1 ELSE 0)
      + Cardinality({ k \in DOMAIN photoTasks : photoTasks[k].state \in {"fetch", "vision"} })
      + Cardinality({ k \in DOMAIN lookupTasks : lookupTasks[k].state = "calling" })

BatchNumber(k, limit) == (k - 1) \div limit

\* a started task finds every task of the earlier batches settled
BatchesInSequence(tasks, limit) ==
    \A k, j \in DOMAIN tasks :
        (tasks[k].state # "pending" /\ BatchNumber(j, limit) < BatchNumber(k, limit))
            => Settled(tasks[j])

\* C4: at most 3 outbound calls are in flight at any moment, and a task of
\* batch N+1 is started only after every task of batch N has settled, in
\* the photo loop and in batchPriceLookup.
C4_BoundedConcurrency ==
    /\ InFlight <= 3
    /\ BatchesInSequence(photoTasks, concurrency)
    /\ BatchesInSequence(lookupTasks, lookupConcurrency)

\* C4 witness: a marketplace request of the second lookup batch is in
\* flight after two photo batches
C4_Witness ==
    /\ pc = "enriching"
    /\ Len(photoTasks) > concurrency
    /\ \E k \in DOMAIN lookupTasks : k > lookupConcurrency /\ lookupTasks[k].state = "calling"

AnalysisOver == pc \in {"deduplicate", "enriching", "summarize", "done"}

\* the photo's task ended in the catch block of line 210
PhotoFailed(task) == task.state = "fulfilled" /\ ~Has(task, "text")

\* what the photos contribute: nothing for a failed photo, the tagged items
\* of its reply for every other
ExpectedItems ==
    Flatten([k \in DOMAIN photoTasks |->
        IF Has(photoTasks[k], "text")
        THEN TagItems(parseItemsFromResponse(photoTasks[k].text).items, k - 1,
                      photosToAnalyze[k])
        ELSE <<>>])

\* C5: once the photo loop is over every photo has been analyzed, a failed
\* photo has contributed no item, and the deduplicator receives all items
\* of every photo that was analyzed successfully, in photo order.
C5_PhotoFailuresIsolated ==
    AnalysisOver =>
        /\ Len(photoTasks) = Len(photosToAnalyze)
        /\ \A k \in DOMAIN photoTasks : photoTasks[k].state = "fulfilled"
        /\ allItems = ExpectedItems

\* C5 witness: the first photo failed, a sibling of its batch and a photo of
\* the next batch yielded items
C5_Witness ==
    /\ pc = "deduplicate"
    /\ Len(photoTasks) > concurrency
    /\ PhotoFailed(photoTasks[1])
    /\ Has(photoTasks[2], "text")
    /\ Has(photoTasks[concurrency + 1], "text")

IsFailure(resp) ==
    /\ resp[1].status \in {400, 500}
    /\ Has(resp[1].body, "error")
    /\ ~Has(resp[1].body, "items")
    /\ ~Has(resp[1].body, "summary")

NoAnalysisCalls == outbound.image = {} /\ outbound.vision = {} /\ outbound.lookup = {}

\* C6: a listing with zero photos is answered at once with a successful
\* response holding items = [] and a message, and no vision call and no
\* marketplace lookup is made.
C6_NoPhotosIsEmptyReport ==
    (saleOutcome = <<"ok">> /\ pictures = <<>>) =>
        /\ pc = "done"
        /\ response[1].status = 200
        /\ response[1].body = [items |-> <<>>, message |-> "No photos found for this sale"]
        /\ NoAnalysisCalls

\* C6 witness
C6_Witness == saleOutcome = <<"ok">> /\ pictures = <<>> /\ pc = "done"

\* C7: without a listing id or without the vision credential the handler
\* returns a failure with an error message and makes no outbound call.
C7_ConfigErrorStops ==
    (request.saleId = "" \/ ~env.ANTHROPIC_API_KEY) =>
        /\ pc \in {"request", "done"}
        /\ outbound = NoCalls
        /\ pc = "done" => IsFailure(response)

\* C7 witness: a request with a listing id, refused for the credential
C7_Witness == pc = "done" /\ request.saleId # "" /\ ~env.ANTHROPIC_API_KEY

\* C8: when the listing fetch throws or returns a non-success status the
\* response is a failure without items and summary, and no vision call or
\* marketplace lookup is made.
C8_ListingFailureIsFatal ==
    (saleOutcome = <<"threw">> \/ saleOutcome = <<"notOk">>) =>
        /\ pc = "done"
        /\ IsFailure(response)
        /\ NoAnalysisCalls

\* C8 witness
C8_Witness == saleOutcome = <<"notOk">> /\ pc = "done"

\* C9: the handler returns a failure only for a missing listing id, a
\* missing vision credential or a failed listing fetch.
C9_OnlyConfigAndListingFail ==
    (pc = "done" /\ IsFailure(response)) =>
        \/ request.saleId = ""
        \/ ~env.ANTHROPIC_API_KEY
        \/ saleOutcome = <<"threw">> \/ saleOutcome = <<"notOk">>

IsReport(resp) == resp[1].status = 200 /\ Has(resp[1].body, "summary")

SameItems(a, b) == Len(a) = Len(b) /\ Range(a) = Range(b)

PhaseRank(p) ==
    CASE p = "request"     -> 0
      [] p = "fetchSale"   -> 1
      [] p = "analyzing"   -> 2
      [] p = "deduplicate" -> 3
      [] p = "enriching"   -> 4
      [] p = "summarize"   -> 5
      [] p = "done"        -> 6

AllSettled(tasks) == \A k \in DOMAIN tasks : Settled(tasks[k])

\* what each phase finds done
PhasesComplete ==
    /\ PhaseRank(pc) < 2 => photoTasks = <<>>
    /\ (PhaseRank(pc) >= 3 /\ photosToAnalyze # <<>>) =>
          Len(photoTasks) = Len(photosToAnalyze) /\ AllSettled(photoTasks)
    /\ PhaseRank(pc) < 4 =>
          lookupTasks = <<>> /\ outbound.lookup = {} /\ priceLookups = <<>>
    /\ (PhaseRank(pc) >= 4 /\ lookupTasks # <<>>) =>
          Len(lookupTasks) = Len(deduplicated)
    /\ PhaseRank(pc) >= 5 => AllSettled(lookupTasks)
    /\ response # <<>> <=> pc = "done"

\* a step never goes back to an earlier phase, and the summary is computed
\* in the step that leaves the summarizing phase
PhaseStep ==
    /\ PhaseRank(pc') >= PhaseRank(pc)
    /\ (response = <<>> /\ response' # <<>> /\ response'[1].status = 200
           /\ Has(response'[1].body, "summary")) => pc = "summarize"

\* C23: an invocation goes through photo-list fetch, photo analysis,
\* deduplication, enrichment, summarizing and response in this order:
\* deduplication starts only after the tasks of every photo batch have
\* settled, no marketplace lookup starts before deduplication has finished,
\* sort and summary come only after every lookup has settled.
C23_PhasesInOrder == []PhasesComplete /\ [][PhaseStep]_vars

\* C23 witness: the report is back after two photo batches and two lookup
\* batches
C23_Witness ==
    /\ pc = "done" /\ IsReport(response)
    /\ Len(photoTasks) > concurrency
    /\ Len(lookupTasks) > lookupConcurrency
    /\ AllSettled(lookupTasks)

\* the lookup results by item, whatever the order the lookups settled in
ExpectedLookups == Flatten([k \in DOMAIN lookupTasks |-> Pushed(lookupTasks[k])])

\* the report as a function of the photo list and of what the collaborators
\* answered per photo and per item
ExpectedReport ==
    LET kept   == deduplicateItemsResult(ExpectedItems).kept
        merged == IF EbayAppId(env) THEN MergeLookups(kept, ExpectedLookups) ELSE kept
        comps  == EbayAppId(env) /\ AnyComps(kept, ExpectedLookups)
    IN  Report(SortByValue(merged), photosToAnalyze, pictures, comps)

\* C24: the returned report does not depend on the order in which the
\* concurrent calls complete: it is the one the photo list, the answer for
\* each photo and the answer for each item determine, items, order and
\* summary, under every interleaving of the completions within the batches.
C24_ReportIgnoresCompletionOrder ==
    (pc = "done" /\ IsReport(response)) => response = ExpectedReport

\* C24 witness: a report of two items detected in two photos of one batch,
\* both looked up in one batch, the second of them listed first
C24_Witness ==
    /\ pc = "done" /\ IsReport(response)
    /\ Len(photoTasks) >= 2 /\ Len(lookupTasks) = 2
    /\ Has(photoTasks[1], "text") /\ Has(photoTasks[2], "text")
    /\ \A k \in DOMAIN lookupTasks : lookupTasks[k].state = "fulfilled"
    /\ Len(response[1].body.items) = 2
    /\ response[1].body.items[1].photoIndex = 1
    /\ response[1].body.items[2].photoIndex = 0

-----------------------------------------------------------------------------
(* Properties of the report, under SpecReport *)

Reported == pc = "done" /\ IsReport(response)

\* the value the items are said to be ordered by: the marketplace median of
\* an item with comp data, else the first dollar amount of its hint
StatedValue(item) ==
    IF Has(item, "ebay") THEN item.ebay.median ELSE Dollars(parseEstimate(item))

\* C11: in every report the items are in non-increasing order of value,
\* the value being the marketplace median of an item that carries comp data
\* and the low estimate parsed from the hint otherwise.
C11_SortedByStatedValue ==
    Reported =>
        \A k \in 1..(Len(response[1].body.items) - 1) :
            StatedValue(response[1].body.items[k])
                >= StatedValue(response[1].body.items[k + 1])
\* the item as it was before enrichment
WithoutEbay(item) == [f \in DOMAIN item \ {"ebay"} |-> item[f]]

\* how many elements of list satisfy Is
CountOf(list, Is(_)) == Cardinality({ k \in DOMAIN list : Is(list[k]) })

\* b is a rearrangement of a, comp data aside
SameItemsEnriched(a, b) ==
    /\ Len(a) = Len(b)
    /\ \A k \in DOMAIN a :
          LET IsIt(x) == WithoutEbay(x) = a[k]
          IN  CountOf(a, IsIt) = CountOf(b, IsIt)

\* C12: summary.itemsFound is the length of the returned items, which are
\* the deduplicated items: enrichment and sorting add and remove nothing.
C12_ItemCountIsDeduplicated ==
    Reported =>
        /\ response[1].body.summary.itemsFound = Len(response[1].body.items)
        /\ SameItemsEnriched(deduplicateItems(allItems), response[1].body.items)

\* C12 witness: a report of several items, fewer than were detected, some
\* with comp data and some without, in another order than the deduplicator's
C12_Witness ==
    /\ Reported
    /\ Len(response[1].body.items) >= 2
    /\ Len(response[1].body.items) < Len(allItems)
    /\ \E k \in DOMAIN response[1].body.items : Has(response[1].body.items[k], "ebay")
    /\ \E k \in DOMAIN response[1].body.items : ~Has(response[1].body.items[k], "ebay")
    /\ WithoutEbay(response[1].body.items[1]) # deduplicateItems(allItems)[1]
StatedAmounts(hint) ==
    CASE hint = Hint50to100 -> <<50>>
      [] hint = Hint2to8    -> <<2, 8>>
      [] hint = Hint1       -> <<1>>

\* the low and high bound an item is said to add to the totals
StatedBounds(item) ==
    IF Has(item, "ebay") THEN <<item.ebay.low, item.ebay.high>>
    ELSE IF ~Has(item, "estimated_value_hint") THEN <<0, 0>>
    ELSE LET amounts == StatedAmounts(item.estimated_value_hint)
         IN  <<Dollars(amounts[1]), Dollars(amounts[Len(amounts)])>>

StatedMedian(item) == IF Has(item, "ebay") THEN item.ebay.median ELSE 0

\* C14: estimatedTotalValue.low and .high are the sums over the returned
\* items of the comp low/high of an item with comp data and of the first
\* and second dollar amount of the hint otherwise (the single amount for
\* both, 0 without any); ebayMedian, when present, is the sum of the comp
\* medians.
C14_TotalsAreSums ==
    Reported =>
        LET items  == response[1].body.items
            totals == response[1].body.summary.estimatedTotalValue
        IN  /\ totals.low  = Sum([k \in DOMAIN items |-> StatedBounds(items[k])[1]])
            /\ totals.high = Sum([k \in DOMAIN items |-> StatedBounds(items[k])[2]])
            /\ Has(totals, "ebayMedian") =>
                  totals.ebayMedian = Sum([k \in DOMAIN items |-> StatedMedian(items[k])])

\* C14 witness: a report over an item with comp data and a hint, an item
\* with a two-amount hint and no comps, and an item without a hint
C14_Witness ==
    /\ Reported
    /\ LET items == response[1].body.items
       IN  /\ \E k \in DOMAIN items :
                 Has(items[k], "ebay") /\ Has(items[k], "estimated_value_hint")
           /\ \E k \in DOMAIN items :
                 ~Has(items[k], "ebay") /\ Has(items[k], "estimated_value_hint")
                    /\ items[k].estimated_value_hint = Hint2to8
           /\ \E k \in DOMAIN items :
                 ~Has(items[k], "ebay") /\ ~Has(items[k], "estimated_value_hint")
    /\ response[1].body.summary.estimatedTotalValue.low
          < response[1].body.summary.estimatedTotalValue.high
    /\ response[1].body.summary.estimatedTotalValue.ebayMedian > 0
\* the categories the system prompt lists (route.js line 12)
Categories ==
    { "furniture", "electronics", "appliances", "kitchenware", "art", "collectibles",
      "tools", "clothing", "jewelry", "books", "toys", "sporting_goods", "other" }

\* C22: every item of every returned report has a category of the fixed
\* enumeration: a category outside it is coerced to other or the item is
\* rejected.
C22_CategoryInEnumeration ==
    Reported =>
        \A k \in DOMAIN response[1].body.items :
            /\ Has(response[1].body.items[k], "category")
            /\ response[1].body.items[k].category \in Categories

\* item k of the deduplicated list with the comp data of the lookup that was
\* issued for it, if that lookup returned any
WithOwnComps(items, k) ==
    IF lookupTasks[k].state = "fulfilled" /\ HasComps(lookupTasks[k].value)
    THEN SetField(items[k], "ebay", CompData(lookupTasks[k].value[1].ebay))
    ELSE items[k]

\* how often x occurs in list
Occurrences(list, x) == Cardinality({ k \in DOMAIN list : list[k] = x })

\* C27: every item of the report that carries comp data carries the result
\* of the lookup issued for that same item, also when several deduplicated
\* items share a name, and an item whose own lookup was unavailable or
\* returned no comps carries none: the report holds the deduplicated items,
\* each with the comp data of its own lookup.
C27_OwnLookupOnly ==
    (Reported /\ lookupTasks # <<>>) =>
        LET kept == deduplicateItems(allItems)
            own  == [k \in DOMAIN kept |-> WithOwnComps(kept, k)]
        IN  /\ Len(response[1].body.items) = Len(own)
            /\ \A k \in DOMAIN own :
                  Occurrences(response[1].body.items, own[k]) = Occurrences(own, own[k])

-----------------------------------------------------------------------------
(* Properties of batchPriceLookup and findSoldListings, under SpecLookup *)

\* batchPriceLookup has returned its results
LookupReturned == pc = "summarize"

\* the results of the batches before the current one have been collected
Collected(k) == k <= Len(priceLookups)

WithoutPhrase(item) == ~Has(item, "search_query") \/ item.search_query = <<>>

NoQueryResult == [available |-> FALSE, reason |-> "No search query"]

\* C15: an item without a search phrase never triggers a marketplace
\* request, and its result is {available: false, reason: 'No search query'}
\* whatever the other items of its batch do.
C15_NoPhraseNoCall ==
    \A k \in DOMAIN deduplicated :
        WithoutPhrase(deduplicated[k]) =>
            /\ \A call \in outbound.lookup : call.item # k
            /\ lookupTasks[k].state \in {"pending", "fulfilled"}
            /\ lookupTasks[k].state = "fulfilled" =>
                  lookupTasks[k].value[1].ebay = NoQueryResult
            /\ Collected(k) => priceLookups[k].ebay = NoQueryResult
            /\ LookupReturned => Collected(k)

\* C15 witness: the results are back; an item without a phrase shared its
\* batch with a lookup that rejected and one that reached the marketplace
C15_Witness ==
    /\ LookupReturned /\ lookupLimit = 3 /\ Len(deduplicated) = 3
    /\ \E k \in DOMAIN deduplicated :
          WithoutPhrase(deduplicated[k]) /\ priceLookups[k].ebay = NoQueryResult
    /\ \E k \in DOMAIN lookupTasks : lookupTasks[k].state = "rejected"
    /\ outbound.lookup # {}

\* C16: a lookup task that rejects is recorded as {available: false,
\* reason: <rejection message>}; the results of its siblings are kept and
\* the later batches still run.
C16_RejectionIsRecorded ==
    /\ \A k \in DOMAIN lookupTasks :
          Collected(k) =>
             /\ lookupTasks[k].state = "rejected" =>
                   priceLookups[k].ebay =
                      [available |-> FALSE, reason |-> lookupTasks[k].reason]
             /\ lookupTasks[k].state = "fulfilled" =>
                   priceLookups[k] = lookupTasks[k].value[1]
    /\ LookupReturned =>
          /\ Len(priceLookups) = Len(lookupTasks)
          /\ \A k \in DOMAIN lookupTasks : Settled(lookupTasks[k])

\* C16 witness: a task of the first batch rejected, a sibling of its batch
\* and a task of a later batch obtained comps
C16_Witness ==
    /\ LookupReturned /\ lookupLimit = 2 /\ Len(lookupTasks) = 3
    /\ \E k \in 1..2 :
          /\ lookupTasks[k].state = "rejected"
          /\ priceLookups[k].ebay.reason = lookupTasks[k].reason
          /\ priceLookups[3 - k].ebay.available /\ priceLookups[3 - k].ebay.count > 0
    /\ priceLookups[3].ebay.available /\ priceLookups[3].ebay.count > 0

\* the i-th result belongs to the i-th item: it carries the item's name and
\* is what the item's own task returned, or is the record of its rejection
OutcomeOf(result, item, task) ==
    IF task.state = "fulfilled"
    THEN /\ result = task.value[1]
         /\ Has(result, "itemName") = Has(item, "name")
         /\ Has(item, "name") => result.itemName = item.name
    ELSE /\ task.state = "rejected"
         /\ result.ebay = [available |-> FALSE, reason |-> task.reason]

\* C17: batchPriceLookup returns one result per item, the i-th result
\* being the outcome of the i-th item, for every positive limit and in
\* whatever order the lookups complete.
C17_OneResultPerItem ==
    LookupReturned =>
        /\ Len(priceLookups) = Len(deduplicated)
        /\ \A k \in DOMAIN deduplicated :
              OutcomeOf(priceLookups[k], deduplicated[k], lookupTasks[k])

\* C17 witness: three different items looked up two at a time, each with
\* its own outcome
C17_Witness ==
    /\ LookupReturned /\ lookupLimit = 2 /\ Len(deduplicated) = 3
    /\ priceLookups[1].ebay # priceLookups[2].ebay
    /\ priceLookups[2].ebay # priceLookups[3].ebay
    /\ priceLookups[1].ebay # priceLookups[3].ebay
    /\ \E k \in 1..3 : priceLookups[k].ebay.available
    /\ \E k \in 1..3 : lookupTasks[k].state = "rejected"

FailureReasons ==
    { "fetch failed", "eBay API error: 500", "Unexpected token < in JSON at position 0",
      "Unknown eBay API error", "Invalid keywords", "items.map is not a function" }

\* C18: findSoldListings never throws to its caller: without the
\* credential, on a network failure, a non-success status, an
\* acknowledgement other than Success or a malformed body the lookup ends
\* with the value {available: false, reason: <message>}.
C18_SoldListingsNeverThrows ==
    \A k \in DOMAIN lookupTasks :
        /\ lookupTasks[k].state = "rejected" =>
              lookupTasks[k].reason = "item.estimated_value_hint.match is not a function"
        /\ (lookupTasks[k].state = "fulfilled" /\ ~WithoutPhrase(deduplicated[k])) =>
              LET ebay == lookupTasks[k].value[1].ebay
              IN  /\ ~env.EBAY_APP_ID =>
                        ebay = [available |-> FALSE, reason |-> "EBAY_APP_ID not configured"]
                  /\ (env.EBAY_APP_ID /\ deduplicated[k].search_query = StrDown) =>
                        /\ DOMAIN ebay = {"available", "reason"}
                        /\ ~ebay.available
                        /\ ebay.reason \in FailureReasons
                  /\ ebay.available \/ Has(ebay, "reason")

\* C18 witness: with the credential, the marketplace rejected the keywords
\* of one lookup and sent no JSON to another; both ended with a value
C18_Witness ==
    /\ env.EBAY_APP_ID
    /\ \E j, k \in DOMAIN lookupTasks :
          /\ lookupTasks[j].state = "fulfilled" /\ lookupTasks[k].state = "fulfilled"
          /\ lookupTasks[j].value[1].ebay
                = [available |-> FALSE, reason |-> "Invalid keywords"]
          /\ lookupTasks[k].value[1].ebay
                = [available |-> FALSE,
                   reason |-> "Unexpected token < in JSON at position 0"]

-----------------------------------------------------------------------------
(* Properties of the price statistics, under SpecStats *)

\* the element of rank r (0-based) among the prices sold[i], i \in P
AtRank(sold, P, r) ==
    CHOOSE x \in { sold[i] : i \in P } :
        /\ Cardinality({ i \in P : sold[i] < x }) <= r
        /\ r < Cardinality({ i \in P : sold[i] <= x })

\* m (quarter dollars) is a whole number of dollars nearest to (x + y) / 2
NearestDollarToMean(m, x, y) ==
    /\ m % 4 = 0
    /\ 2 * m - (x + y) <= 4
    /\ (x + y) - 2 * m <= 4

\* the statistics stated for the list of sold prices
StatedStats(ebay, sold) ==
    LET P == { i \in DOMAIN sold : sold[i] > 0 }
        n == Cardinality(P)
    IN  /\ ebay.available
        /\ ebay.count = n
        /\ IF n = 0
           THEN /\ ebay.median = 0 /\ ebay.mean = 0 /\ ebay.low = 0 /\ ebay.high = 0
                /\ ebay.recentSales = <<>>
           ELSE /\ NearestDollarToMean(ebay.median,
                                       AtRank(sold, P, (n - 1) \div 2),
                                       AtRank(sold, P, n \div 2))
                /\ ebay.low = AtRank(sold, P, 0)
                /\ ebay.high = AtRank(sold, P, n - 1)

\* the sold prices of the response, which the result shows in recentSales
\* (all of them, as the page holds at most five here); without a price > 0
\* recentSales is empty
SoldOf(ebay) == ebay.recentSales

\* C19: on a successful response the statistics are those of the prices
\* > 0: their count, the middle element of the sorted list (the mean of
\* the two middle elements for an even count) rounded to the nearest
\* integer, the minimum and the maximum; without a price > 0 all of count,
\* median, mean, low and high are 0, available is true, recentSales empty.
C19_StatisticsMatch ==
    \A k \in DOMAIN lookupTasks :
        lookupTasks[k].state = "fulfilled" =>
            LET ebay == lookupTasks[k].value[1].ebay
            IN  StatedStats(ebay, SoldOf(ebay))

\* C19 witness: the sold prices [20, 0, 10] (dollars) have count 2,
\* median 15, low 10 and high 20
C19_Witness ==
    /\ lookupTasks[1].state = "fulfilled"
    /\ lookupTasks[1].value[1].ebay.recentSales = <<Dollars(20), 0, Dollars(10)>>
    /\ lookupTasks[1].value[1].ebay.count = 2
    /\ lookupTasks[1].value[1].ebay.median = Dollars(15)
    /\ lookupTasks[1].value[1].ebay.low = Dollars(10)
    /\ lookupTasks[1].value[1].ebay.high = Dollars(20)

-----------------------------------------------------------------------------
(* Properties of similarity, under SpecSimilarity *)

\* the score is the number 0, respectively 1 (0/0 is NaN, neither)
IsZero(score) == score.num = 0 /\ score.den # 0
IsOne(score)  == score.num = score.den /\ score.den # 0

ShorterThanTwo == Len(simA) < 2 \/ Len(simB) < 2

\* a and b are the same string, letter case aside
EqualIgnoringCase(a, b) ==
    /\ Len(a) = Len(b)
    /\ \A i \in DOMAIN a : toLowerChar(a[i]) = toLowerChar(b[i])

\* C20: similarity(a, b) is 0 whenever a or b has fewer than 2 characters.
C20_ShortScoresZero ==
    (simScore # <<>> /\ ShorterThanTwo) => IsZero(simScore[1])

\* C20 as amended: when a or b has fewer than 2 characters, similarity(a, b)
\* is 1 if a and b are equal letter case aside (the empty string included)
\* and 0 otherwise.
C20_ShortScoresZeroUnlessEqual ==
    (simScore # <<>> /\ ShorterThanTwo) =>
        IF EqualIgnoringCase(simA, simB)
        THEN IsOne(simScore[1]) ELSE IsZero(simScore[1])

\* C20 witness: a one-character string scored against a longer string that
\* starts with it
C20_Witness ==
    /\ simScore # <<>>
    /\ Len(simA) = 1 /\ Len(simB) = 3 /\ simB[1] = simA[1]
    /\ IsZero(simScore[1])

\* two scores are the same number
SameScore(x, y) == x.num * y.den = y.num * x.den /\ (x.den = 0) = (y.den = 0)

\* C21: similarity is symmetric: similarity(a, b) equals similarity(b, a)
\* for every pair of strings, although the bigrams of the first argument
\* are counted and those of the second consume from the count.
C21_Symmetric ==
    simScore # <<>> => SameScore(simScore[1], similarity(simB, simA))

\* C21 witness: "aa" against a three-letter string of the same letter: the
\* one bigram of a is matched once, the score is 2/3
C21_Witness ==
    /\ simScore # <<>>
    /\ Len(simA) = 2 /\ Len(simB) = 3
    /\ toLowerCase(simA) = <<"a", "a">> /\ toLowerCase(simB) = <<"a", "a", "a">>
    /\ simScore[1] = Fraction(2, 3)

-----------------------------------------------------------------------------
(* Properties of deduplicateItems, under SpecDedup *)

DedupReturned == dedupPc \in {"returned", "rerun"}

NearDuplicates(x, y) ==
    \/ FracGe(similarity(x.name, y.name), nameThreshold)
    \/ FracGe(similarity(x.search_query, y.search_query), queryThreshold)

\* C1: the returned list holds no two distinct items of the same category
\* whose name similarity is >= 0.75 or whose search_query similarity is
\* >= 0.70 (similarity taken in either argument order).
C1_NoNearDuplicatesKept ==
    DedupReturned =>
        \A i, j \in DOMAIN dedupKept :
            (i # j /\ dedupKept[i].category = dedupKept[j].category)
                => ~NearDuplicates(dedupKept[i], dedupKept[j])

\* C1 witness: an item was discarded and two items of one category survive
C1_Witness ==
    /\ dedupPc = "returned"
    /\ Len(dedupKept) < Len(dedupInput)
    /\ \E i, j \in DOMAIN dedupKept :
          i # j /\ dedupKept[i].category = dedupKept[j].category

\* the item without its notable_features
Core(item) == [f \in DOMAIN item \ {"notable_features"} |-> item[f]]

AppearsIn(item, list) == \E k \in DOMAIN list : Core(list[k]) = Core(item)

\* an iteration that discarded an item merged it into a kept item of its own
\* category and of at least its confidence rank, and that kept item now
\* carries the union of both feature sets
MergeIsSound ==
    \A m \in Range(dedupMerge) :
        /\ m.item.category = m.existing.category
        /\ confidenceRank(m.existing) >= confidenceRank(m.item)
        /\ Range(FeaturesOf(dedupKept[m.index]))
             = Range(FeaturesOf(m.existing)) \cup Range(FeaturesOf(m.item))
        /\ Core(dedupKept[m.index]) = Core(m.existing)

SameNameOtherCategory(x, y) == x.name = y.name /\ x.category # y.category

\* C2 as stated: merges are sound, and of any two input items with identical
\* names and different categories both appear in the output.
C2_AsStated ==
    /\ MergeIsSound
    /\ DedupReturned =>
          \A i, j \in DOMAIN dedupInput :
              SameNameOtherCategory(dedupInput[i], dedupInput[j])
                  => /\ AppearsIn(dedupInput[i], dedupKept)
                     /\ AppearsIn(dedupInput[j], dedupKept)

\* x has no near-duplicate of its own category elsewhere in the input
NoRivalInInput(i) ==
    \A m \in DOMAIN dedupInput \ {i} :
        \/ dedupInput[m].category # dedupInput[i].category
        \/ ~NearDuplicates(dedupInput[i], dedupInput[m])

\* C2 (amended): merges are sound (same category, kept rank >= discarded
\* rank, features united), so two items with identical names and different
\* categories are never merged with each other; each of them appears in the
\* output unless the input holds another item of its own category that it
\* near-duplicates.
C2_MergeSoundAndCategoriesApart ==
    /\ MergeIsSound
    /\ DedupReturned =>
          \A i, j \in DOMAIN dedupInput :
              (SameNameOtherCategory(dedupInput[i], dedupInput[j]) /\ NoRivalInInput(i))
                  => AppearsIn(dedupInput[i], dedupKept)

\* C2 witness: a lower-confidence item with other features has just been
\* merged while an item of the same name and another category is kept
C2_Witness ==
    /\ dedupPc = "loop"
    /\ \E m \in Range(dedupMerge) :
          /\ confidenceRank(m.existing) > confidenceRank(m.item)
          /\ Range(FeaturesOf(m.item)) \ Range(FeaturesOf(m.existing)) # {}
          /\ \E k \in DOMAIN dedupKept :
                SameNameOtherCategory(dedupKept[k], dedupKept[m.index])

\* C3: deduplicateItems run on its own output returns the same items in the
\* same order with the same notable_features.
C3_Idempotent == dedupPc = "rerun" => dedupAgain = dedupKept

\* C3 witness: the second pass ran on an output the first pass had reduced
\* to several items, one of them carrying merged features
C3_Witness ==
    /\ dedupPc = "rerun"
    /\ 1 < Len(dedupKept) /\ Len(dedupKept) < Len(dedupInput)
    /\ \E k \in DOMAIN dedupKept : ~(\E i \in DOMAIN dedupInput : dedupInput[i] = dedupKept[k])

-----------------------------------------------------------------------------
(* batchPriceLookup(items, concurrency) for every integer the caller may   *)
(* pass as concurrency.  The loop index is followed down to -MaxRewind.    *)

MaxRewind == 3

LimitsInit ==
    \E items \in SeqsUpTo(LookupUniverse, MaxLookups), limit \in {-2, -1, 0, 1, 2},
       environment \in { e \in Envs : e.ANTHROPIC_API_KEY /\ e.EBAY_APP_ID } :
        LookupStart(items, limit, environment)

\* one more iteration of the for loop of line 341
LoopIterates ==
    /\ lookupLoop > -MaxRewind
    /\ LookupBatchSettled

LimitsNext == LookupSettles \/ LoopIterates

SpecLimits == LimitsInit /\ [][LimitsNext]_vars

-----------------------------------------------------------------------------
(* Properties of the loop of batchPriceLookup, under SpecLimits *)

\* C29: batchPriceLookup terminates for every finite list and every integer
\* concurrency, 0 and negative values included, provided every lookup
\* settles: as long as it has not returned it can take a step that changes
\* its state, and no iteration moves the loop index away from the end of
\* the list.
C29_Terminates ==
    /\ [](LookupReturned \/ ENABLED <<LimitsNext>>_vars)
    /\ [][lookupLoop' >= lookupLoop]_vars

-----------------------------------------------------------------------------
(* POST /api/analyze for every photo limit a request may carry, without a  *)
(* marketplace credential: validation, photo list, photo analysis,         *)
(* deduplication and summary.                                              *)

PhotosInit ==
    /\ DedupIdle
    /\ SimIdle
    /\ ClientIdle
    /\ AuthIdle
    /\ request \in { [saleId |-> "4471"] }
                    \cup { [saleId |-> "4471", maxPhotos |-> m] : m \in {-1, 0, 1, 2} }
    /\ env \in { e \in Envs : ~e.EBAY_APP_ID }
    /\ pc = "request"
    /\ saleOutcome = <<>>
    /\ pictures = <<>>
    /\ photosToAnalyze = <<>>
    /\ photoTasks = <<>>
    /\ photoLoop = 0
    /\ allItems = <<>>
    /\ deduplicated = <<>>
    /\ lookupTasks = <<>>
    /\ lookupLimit = 0
    /\ lookupLoop = 0
    /\ priceLookups = <<>>
    /\ ebayAvailable = FALSE
    /\ response = <<>>
    /\ outbound = NoCalls

PhotosNext ==
    \/ ReceiveRequest
    \/ SaleFetchSettles
    \/ ImageFetchSettles
    \/ VisionSettles
    \/ PhotoBatchSettled
    \/ DeduplicateAll
    \/ Summarize

SpecPhotos == PhotosInit /\ [][PhotosNext]_vars

-----------------------------------------------------------------------------
(* Properties of the photo limit, under SpecPhotos *)

\* min(maxPhotos, totalPhotos)
PhotoBudget == Min({maxPhotosOf(request), Len(pictures)})

\* the photo tasks started so far: each is one photo on its way to the
\* vision model
PhotosSent == { k \in DOMAIN photoTasks : photoTasks[k].state # "pending" }

\* C25: for every maxPhotos of the request (10 when it has none) the photos
\* sent to the vision model are the first maxPhotos photos of the listing in
\* listing order, all of them when there are fewer: the number of photos
\* sent and summary.photosAnalyzed are min(maxPhotos, totalPhotos) and never
\* exceed maxPhotos.
C25_FirstMaxPhotos ==
    /\ PhotosSent # {} => Cardinality(PhotosSent) <= maxPhotosOf(request)
    /\ outbound.vision \subseteq PhotosSent
    /\ (AnalysisOver /\ photoTasks # <<>>) =>
          /\ Len(photosToAnalyze) = PhotoBudget
          /\ \A k \in DOMAIN photosToAnalyze : photosToAnalyze[k] = pictures[k]
          /\ Cardinality(PhotosSent) = PhotoBudget
    /\ (pc = "done" /\ IsReport(response) /\ photoTasks # <<>>) =>
          /\ response[1].body.summary.photosAnalyzed = PhotoBudget
          /\ response[1].body.summary.photosAnalyzed <= maxPhotosOf(request)

-----------------------------------------------------------------------------
(* SalesClient: the analysis panel and its per-listing cache.  An action   *)
(* is one click or the settling of one request to /api/analyze; the state  *)
(* updates of one synchronous run are rendered together.  The panel is a   *)
(* full-screen overlay, so a card's Analyze button is clicked while the    *)
(* panel is closed.                                                        *)

MaxClicks == 3

SaleIds == {1, 2}

\* what /api/analyze may return for the listing: one of two reports
ReportsFor(sale) == { [forSale |-> sale, version |-> v] : v \in {1, 2} }

\* bug variant: the report is stored under the sale the panel shows
CacheWithShownSale(cache, sale, data) ==
    IF analysisSale = <<>> THEN cache
    ELSE [cache EXCEPT ![analysisSale[1]] = <<data>>]

\* line 713: { ...prev, [sale.id]: data }
CacheWith(cache, sale, data) == [cache EXCEPT ![sale] = <<data>>]

\* requests to /api/analyze sent so far
AnalyzeSent ==
    Len(analyzeLog) + Sum([k \in 1..Cardinality(SaleIds) |-> analyzeCalls[k]])

\* lines 650-655: the initial state of the component
ClientInit ==
    /\ DedupIdle
    /\ PostIdle
    /\ SimIdle
    /\ AuthIdle
    /\ analyzingSaleId = <<>>
    /\ analysisSale = <<>>
    /\ analysisData = <<>>
    /\ analysisLoading = FALSE
    /\ analysisError = <<>>
    /\ analysisCache = [sale \in SaleIds |-> <<>>]
    /\ analyzeCalls = [sale \in SaleIds |-> 0]
    /\ analyzeLog = <<>>

\* lines 678-705, 544-548: a click on the Analyze button of a card, up to
\* the await of fetch
handleAnalyzeSale ==
    /\ analysisSale = <<>>
    /\ \E sale \in SaleIds :
        /\ analyzingSaleId # <<sale>>
        /\ analysisSale' = <<sale>>
        /\ analysisError' = <<>>
        /\ IF analysisCache[sale] # <<>>
           THEN /\ analysisData' = analysisCache[sale]
                /\ analysisLoading' = FALSE
                /\ UNCHANGED <<analyzingSaleId, analyzeCalls>>
           ELSE /\ AnalyzeSent < MaxClicks
                /\ analyzingSaleId' = <<sale>>
                /\ analysisLoading' = TRUE
                /\ analysisData' = <<>>
                /\ analyzeCalls' = [analyzeCalls EXCEPT ![sale] = @ + 1]
        /\ UNCHANGED <<analysisCache, analyzeLog, dedupVars, postVars, simVars, authVars>>

\* lines 706-713, 716-719: the request for the sale is answered with a report
AnalyzeSucceeds ==
    /\ AnalyzeSent > Len(analyzeLog)
    /\ \E sale \in SaleIds :
        /\ analyzeCalls[sale] > 0
        /\ \E data \in ReportsFor(sale) :
              /\ analysisData' = <<data>>
              /\ analysisCache' = CacheWith(analysisCache, sale, data)
              /\ analyzeLog' = Append(analyzeLog, [sale |-> sale, ok |-> TRUE, data |-> data])
        /\ analysisLoading' = FALSE
        /\ analyzingSaleId' = <<>>
        /\ analyzeCalls' = [analyzeCalls EXCEPT ![sale] = @ - 1]
        /\ UNCHANGED <<analysisSale, analysisError, dedupVars, postVars, simVars, authVars>>

\* lines 706-709, 714-719: fetch rejects, or the response is not ok
AnalyzeFails ==
    /\ AnalyzeSent > Len(analyzeLog)
    /\ \E sale \in SaleIds :
        /\ analyzeCalls[sale] > 0
        /\ analysisError' = <<"Analysis failed">>
        /\ analyzeLog' = Append(analyzeLog, [sale |-> sale, ok |-> FALSE])
        /\ analysisLoading' = FALSE
        /\ analyzingSaleId' = <<>>
        /\ analyzeCalls' = [analyzeCalls EXCEPT ![sale] = @ - 1]
        /\ UNCHANGED <<analysisSale, analysisData, analysisCache,
                       dedupVars, postVars, simVars, authVars>>

\* lines 960-964: the panel's close button
onClose ==
    /\ analysisSale # <<>>
    /\ analysisSale' = <<>>
    /\ analysisData' = <<>>
    /\ analysisError' = <<>>
    /\ UNCHANGED <<analyzingSaleId, analysisLoading, analysisCache, analyzeCalls, analyzeLog,
                   dedupVars, postVars, simVars, authVars>>

ClientNext ==
    \/ handleAnalyzeSale
    \/ AnalyzeSucceeds
    \/ AnalyzeFails
    \/ onClose

SpecClient == ClientInit /\ [][ClientNext]_vars

-----------------------------------------------------------------------------
(* Properties of the client, under SpecClient *)

\* a request for the sale has been answered with a report
Succeeded(sale) == \E k \in DOMAIN analyzeLog : analyzeLog[k].sale = sale /\ analyzeLog[k].ok

\* the cache holds, for the listings whose analysis has succeeded and no
\* others, a report that was returned for that listing
CacheHoldsOwnReports ==
    \A sale \in SaleIds :
        /\ analysisCache[sale] # <<>> <=> Succeeded(sale)
        /\ analysisCache[sale] # <<>> =>
              /\ analysisCache[sale][1].forSale = sale
              /\ \E k \in DOMAIN analyzeLog :
                    analyzeLog[k] = [sale |-> sale, ok |-> TRUE, data |-> analysisCache[sale][1]]

\* an entry stays, and opening the panel for a cached listing shows the
\* cached report and sends nothing
CacheServes ==
    \A sale \in SaleIds :
        analysisCache[sale] # <<>> =>
            /\ analysisCache'[sale] # <<>>
            /\ (analysisSale = <<>> /\ analysisSale' = <<sale>>) =>
                  /\ analysisData' = analysisCache[sale]
                  /\ ~analysisLoading' /\ analysisError' = <<>>
                  /\ analyzeCalls' = analyzeCalls /\ analyzeLog' = analyzeLog

\* C26: the client caches the reports per listing id: once an analysis of a
\* listing has succeeded, every later analyze request for it shows the
\* cached report and sends no request to /api/analyze; a failed analysis is
\* never stored, and an entry holds a report returned for its own listing.
C26_CachePerListing == []CacheHoldsOwnReports /\ [][CacheServes]_vars

\* C26 witness: the first analysis of listing 1 failed, the second
\* succeeded; with a request for listing 2 in flight the panel was opened
\* for listing 1 again and shows the cached report
C26_Witness ==
    /\ Len(analyzeLog) = 2
    /\ analyzeLog[1] = [sale |-> 1, ok |-> FALSE]
    /\ analyzeLog[2].ok /\ analyzeLog[2].sale = 1
    /\ analyzeCalls[2] = 1 /\ analyzingSaleId = <<2>>
    /\ analysisSale = <<1>> /\ ~analysisLoading
    /\ analysisData = analysisCache[1] /\ analysisData # <<>>
    /\ analysisCache[2] = <<>>

\* the panel is open and shows a report
PanelShowsReport ==
    /\ analysisSale # <<>> /\ ~analysisLoading
    /\ analysisError = <<>> /\ analysisData # <<>>

\* C28: under every interleaving of analyze clicks, panel closes and
\* responses, a report shown in the panel is the one returned for the sale
\* the panel shows, and the panel of a sale is loading until a request for
\* that sale has settled.
C28_PanelShowsOwnReport ==
    /\ PanelShowsReport => analysisData[1].forSale = analysisSale[1]
    /\ (analysisSale # <<>> /\ ~analysisLoading) =>
          \E k \in DOMAIN analyzeLog : analyzeLog[k].sale = analysisSale[1]

-----------------------------------------------------------------------------
(* The password gate: middleware and POST /api/auth.  A browser sends one  *)
(* request at a time with the estate-auth cookie of its jar, and stores    *)
(* the cookie a response sets.  Strings are TLA+ strings here; an absent   *)
(* value is <<>>, a present one <<value>>.                                 *)

\* lines 5-8 of the middleware
IsPublicPath(path) == path = "/login" \/ path = "/api/auth"

\* bug variant: any estate-auth cookie opens the gate
HasAnyAuthCookie(cookie) == cookie # <<>>

\* authCookie === 'authenticated'
HasAuthCookie(cookie) == cookie = <<"authenticated">>

\* process.env.SITE_PASSWORD || 'meowmix'
PASSWORD(configured) ==
    IF configured = <<>> \/ configured = <<"">> THEN <<"meowmix">> ELSE configured

AuthInit ==
    /\ DedupIdle
    /\ PostIdle
    /\ SimIdle
    /\ ClientIdle
    /\ sitePassword \in { <<>>, <<"">>, <<"s3cret">> }
    /\ cookieJar \in { <<>>, <<"stale">> }
    /\ httpRequest = <<>>
    /\ httpStage = "idle"
    /\ httpResponse = <<>>

\* the browser sends a request with the cookie of its jar; config.matcher
\* keeps the middleware off /favicon.ico
BrowserSends ==
    /\ httpStage \in {"idle", "done"}
    /\ \E path \in { "/login", "/api/auth", "/", "/api/analyze", "/favicon.ico" },
          method \in { "GET", "POST" },
          password \in { <<>>, <<"">>, <<"meowmix">>, <<"s3cret">>, <<"guess">> } :
          /\ (path # "/api/auth" \/ method # "POST") => password = <<>>
          /\ httpRequest' = <<[path |-> path, method |-> method, cookie |-> cookieJar,
                                password |-> password]>>
          /\ httpStage' = IF path # "/favicon.ico" THEN "middleware" ELSE "bypass"
    /\ httpResponse' = <<>>
    /\ UNCHANGED <<sitePassword, cookieJar, dedupVars, postVars, simVars, clientVars>>

\* middleware(request)
middleware ==
    /\ httpStage = "middleware"
    /\ IF IsPublicPath(httpRequest[1].path) \/ HasAuthCookie(httpRequest[1].cookie)
       THEN /\ httpStage' = "next"
            /\ UNCHANGED httpResponse
       ELSE /\ httpStage' = "done"
            /\ httpResponse' = <<[kind |-> "redirect", location |-> "/login"]>>
    /\ UNCHANGED <<sitePassword, cookieJar, httpRequest, dedupVars, postVars, simVars,
                   clientVars>>

\* the request goes to the route handler of /api/auth
ToAuthRoute ==
    /\ httpStage \in {"next", "bypass"}
    /\ httpRequest[1].path = "/api/auth"
    /\ httpRequest[1].method = "POST"

\* POST of /api/auth
AuthPOST ==
    /\ ToAuthRoute
    /\ IF httpRequest[1].password = PASSWORD(sitePassword)
       THEN /\ httpResponse' = <<[kind |-> "json", status |-> 200, ok |-> TRUE]>>
            /\ cookieJar' = <<"authenticated">>
       ELSE /\ httpResponse' = <<[kind |-> "json", status |-> 401, ok |-> FALSE]>>
            /\ UNCHANGED cookieJar
    /\ httpStage' = "done"
    /\ UNCHANGED <<sitePassword, httpRequest, dedupVars, postVars, simVars, clientVars>>

\* any other page, route or file is served; none of them sets the cookie
Served ==
    /\ httpStage \in {"next", "bypass"}
    /\ ~ToAuthRoute
    /\ httpResponse' = <<[kind |-> "served"]>>
    /\ httpStage' = "done"
    /\ UNCHANGED <<sitePassword, cookieJar, httpRequest, dedupVars, postVars, simVars,
                   clientVars>>

AuthNext ==
    \/ BrowserSends
    \/ middleware
    \/ AuthPOST
    \/ Served

SpecAuth == AuthInit /\ [][AuthNext]_vars

-----------------------------------------------------------------------------
(* Properties of the password gate, under SpecAuth *)

\* the middleware has decided on the request
Decided ==
    /\ httpRequest # <<>>
    /\ httpRequest[1].path # "/favicon.ico"
    /\ httpStage \in {"next", "done"}

Redirected(to) == httpResponse = <<[kind |-> "redirect", location |-> to]>>

\* what the middleware did with the request it decided on
GateDecision ==
    Decided =>
        IF \/ httpRequest[1].path \in {"/login", "/api/auth"}
           \/ httpRequest[1].cookie = <<"authenticated">>
        THEN httpResponse = <<>> \/ httpResponse[1].kind # "redirect"
        ELSE httpStage = "done" /\ Redirected("/login")

\* the cookie changes only in the answer to a POST to /api/auth that carries
\* the configured password, and then to 'authenticated'
CookieStep ==
    cookieJar' # cookieJar =>
        /\ cookieJar' = <<"authenticated">>
        /\ httpRequest[1].path = "/api/auth" /\ httpRequest[1].method = "POST"
        /\ httpRequest[1].password =
              (IF sitePassword \in {<<>>, <<"">>} THEN <<"meowmix">> ELSE sitePassword)
        /\ httpResponse' = <<[kind |-> "json", status |-> 200, ok |-> TRUE]>>

\* C30: the middleware lets a request through only if its path is /login or
\* /api/auth or its estate-auth cookie is 'authenticated', and redirects
\* every other request to /login; the cookie is set to 'authenticated' only
\* by a POST to /api/auth whose password is the configured password.
C30_GateAndCookie == []GateDecision /\ [][CookieStep]_vars

\* C30 witness: a browser has logged in with
\* the configured password and is now served the analysis route
C30_Witness ==
    /\ sitePassword = <<"s3cret">>
    /\ cookieJar = <<"authenticated">>
    /\ httpRequest # <<>>
    /\ httpRequest[1].path = "/api/analyze"
    /\ httpRequest[1].cookie = <<"authenticated">>
    /\ httpStage = "done"
    /\ httpResponse = <<[kind |-> "served"]>>
====
